---- MODULE Spec2Model ----
(***************************************************************************)
(* A model of the PAI desktop backend (pai-desktop/src-tauri/src): the     *)
(* chat orchestrator and its provider routing (ai.rs), the context builder *)
(* and keyword extraction (ai.rs), and the file-backed memory store        *)
(* (memory.rs).                                                            *)
(*                                                                         *)
(* Strings are sequences of characters.  A character is a one-character    *)
(* TLA+ string for ASCII and the name of its code point ("U+8BF7") for     *)
(* anything else, so that prefix tests, splitting, trimming, lower-casing  *)
(* and byte lengths are computed as the Rust code computes them.           *)
(***************************************************************************)
EXTENDS Integers, Sequences, FiniteSets, TLC

VARIABLES
    settings,   \* AppState.settings: default_model and the five provider keys
    messages,   \* AppState.messages: Vec<ChatMessage>
    memories,   \* AppState.memories: Vec<MemoryItem>, the in-memory index
    disk,       \* the memory directories: path -> file content
    stored,     \* path -> the record save_memory last wrote there
    saves,      \* the number of files save_memory has written so far
    chats,      \* the number of chat calls made so far
    now,        \* the wall clock read by chrono::Utc::now()
    chat,       \* the position and locals of the chat call in progress
    call,       \* the last completed operation with its arguments and result
    session_files,    \* the sessions directory: session id -> the Session in <id>.json
    current_session,  \* the file current_session: the Session it holds, if it exists
    settings_file,    \* the file settings.json: the Settings it holds, if it exists
    message_files,    \* the messages directory: timestamp -> the ChatMessage in <timestamp>.json
    network,          \* what each provider's model listing answers
    procs             \* the commands running side by side: the position and locals of each

vars == <<settings, messages, memories, disk, stored, saves, chats, now, chat, call,
          session_files, current_session, settings_file, message_files, network, procs>>

\* The session store.
session_vars == <<session_files, current_session>>

\* The files behind the settings and the message log.
mirror_vars == <<settings_file, message_files>>

(***************************************************************************)
(* Strings                                                                 *)
(***************************************************************************)

\* str::starts_with
StartsWith(s, p) ==
    /\ Len(s) >= Len(p)
    /\ SubSeq(s, 1, Len(p)) = p

\* The concatenation of a sequence of strings (String::push_str in a loop).
RECURSIVE Concat(_)
Concat(ss) ==
    IF ss = <<>> THEN <<>> ELSE Head(ss) \o Concat(Tail(ss))

\* str::contains with a string pattern; the empty pattern is contained in
\* every string.
Contains(s, p) ==
    \E i \in 1..(Len(s) - Len(p) + 1) : SubSeq(s, i, i + Len(p) - 1) = p

(***************************************************************************)
(* Characters                                                              *)
(***************************************************************************)

AsciiUpper ==
    <<"A","B","C","D","E","F","G","H","I","J","K","L","M",
      "N","O","P","Q","R","S","T","U","V","W","X","Y","Z">>

AsciiLower ==
    <<"a","b","c","d","e","f","g","h","i","j","k","l","m",
      "n","o","p","q","r","s","t","u","v","w","x","y","z">>

Digits == {"0","1","2","3","4","5","6","7","8","9"}

\* The CJK ideographs of the stop-word list and of the texts used here; each
\* is alphabetic and takes three bytes in UTF-8.
Ideographs ==
    { "U+4E2A", "U+4E3A", "U+4E48", "U+4EC0", "U+4EE5", "U+4F55", "U+4F60",
      "U+53EF", "U+5982", "U+5E2E", "U+600E", "U+60F3", "U+6211", "U+7ED9",
      "U+80FD", "U+8BF7", "U+8FD9", "U+90A3", "U+597D" }

\* U+00E9 (e with acute): alphabetic, two bytes.
TwoByteLetters == { "U+00E9" }

Range(f) == { f[i] : i \in DOMAIN f }

\* char::is_alphanumeric
IsAlphanumeric(c) ==
    c \in Range(AsciiUpper) \cup Range(AsciiLower) \cup Digits
          \cup Ideographs \cup TwoByteLetters

\* char::len_utf8
Utf8Len(c) ==
    IF c \in Ideographs THEN 3 ELSE IF c \in TwoByteLetters THEN 2 ELSE 1

\* str::len, the length in bytes
RECURSIVE ByteLen(_)
ByteLen(s) ==
    IF s = <<>> THEN 0 ELSE Utf8Len(Head(s)) + ByteLen(Tail(s))

LowerChar(c) ==
    IF \E i \in 1..26 : AsciiUpper[i] = c
    THEN AsciiLower[CHOOSE i \in 1..26 : AsciiUpper[i] = c]
    ELSE c

\* str::to_lowercase
ToLower(s) == [i \in 1..Len(s) |-> LowerChar(s[i])]

\* [String]::join
RECURSIVE Join(_, _)
Join(ss, sep) ==
    IF ss = <<>> THEN <<>>
    ELSE IF Len(ss) = 1 THEN ss[1]
    ELSE ss[1] \o sep \o Join(Tail(ss), sep)

(***************************************************************************)
(* Keyword extraction (ai.rs)                                              *)
(***************************************************************************)

stop_words ==
    {
      <<"t","h","e">>, <<"a">>, <<"a","n">>, <<"i","s">>, <<"a","r","e">>,
      <<"w","a","s">>, <<"w","e","r","e">>, <<"b","e">>, <<"b","e","e","n">>,
      <<"b","e","i","n","g">>, <<"h","a","v","e">>, <<"h","a","s">>,
      <<"h","a","d">>, <<"d","o">>, <<"d","o","e","s">>, <<"d","i","d">>,
      <<"w","i","l","l">>, <<"w","o","u","l","d">>, <<"c","o","u","l","d">>,
      <<"s","h","o","u","l","d">>, <<"m","a","y">>, <<"m","i","g","h","t">>,
      <<"m","u","s","t">>, <<"s","h","a","l","l">>, <<"c","a","n">>,
      <<"n","e","e","d">>, <<"d","a","r","e">>, <<"o","u","g","h","t">>,
      <<"u","s","e","d">>, <<"t","o">>, <<"o","f">>, <<"i","n">>,
      <<"f","o","r">>, <<"o","n">>, <<"w","i","t","h">>, <<"a","t">>,
      <<"b","y">>, <<"f","r","o","m">>, <<"a","s">>, <<"i","n","t","o">>,
      <<"t","h","r","o","u","g","h">>, <<"d","u","r","i","n","g">>,
      <<"b","e","f","o","r","e">>, <<"a","f","t","e","r">>,
      <<"a","b","o","v","e">>, <<"b","e","l","o","w">>,
      <<"b","e","t","w","e","e","n">>, <<"u","n","d","e","r">>,
      <<"a","g","a","i","n">>, <<"f","u","r","t","h","e","r">>,
      <<"t","h","e","n">>, <<"o","n","c","e">>, <<"h","e","r","e">>,
      <<"t","h","e","r","e">>, <<"w","h","e","n">>, <<"w","h","e","r","e">>,
      <<"w","h","y">>, <<"h","o","w">>, <<"a","l","l">>, <<"e","a","c","h">>,
      <<"f","e","w">>, <<"m","o","r","e">>, <<"m","o","s","t">>,
      <<"o","t","h","e","r">>, <<"s","o","m","e">>, <<"s","u","c","h">>,
      <<"n","o">>, <<"n","o","r">>, <<"n","o","t">>, <<"o","n","l","y">>,
      <<"o","w","n">>, <<"s","a","m","e">>, <<"s","o">>, <<"t","h","a","n">>,
      <<"t","o","o">>, <<"v","e","r","y">>, <<"j","u","s","t">>,
      <<"a","n","d">>, <<"b","u","t">>, <<"i","f">>, <<"o","r">>,
      <<"b","e","c","a","u","s","e">>, <<"u","n","t","i","l">>,
      <<"w","h","i","l","e">>, <<"t","h","i","s">>, <<"t","h","a","t">>,
      <<"t","h","e","s","e">>, <<"t","h","o","s","e">>, <<"w","h","a","t">>,
      <<"w","h","i","c","h">>, <<"w","h","o">>, <<"w","h","o","m">>, <<"i">>,
      <<"y","o","u">>, <<"h","e">>, <<"s","h","e">>, <<"i","t">>,
      <<"w","e">>, <<"t","h","e","y">>, <<"m","e">>, <<"h","i","m">>,
      <<"h","e","r">>, <<"u","s">>, <<"t","h","e","m">>, <<"m","y">>,
      <<"y","o","u","r">>, <<"h","i","s">>, <<"i","t","s">>, <<"o","u","r">>,
      <<"t","h","e","i","r">>, <<"m","i","n","e">>, <<"y","o","u","r","s">>,
      <<"h","e","r","s">>, <<"o","u","r","s">>, <<"t","h","e","i","r","s">>,
      <<"U+8BF7">>, <<"U+5E2E","U+6211">>, <<"U+7ED9","U+6211">>,
      <<"U+6211","U+60F3">>, <<"U+4F60","U+80FD">>, <<"U+53EF","U+4EE5">>,
      <<"U+8FD9","U+4E2A">>, <<"U+90A3","U+4E2A">>, <<"U+4EC0","U+4E48">>,
      <<"U+600E","U+4E48">>, <<"U+5982","U+4F55">>,
      <<"U+4E3A","U+4EC0","U+4E48">>
    }

\* str::split(|c| !c.is_alphanumeric()): the pieces between separator
\* characters, empty pieces included.
RECURSIVE SplitNonAlnum(_, _)
SplitNonAlnum(s, cur) ==
    IF s = <<>> THEN <<cur>>
    ELSE IF IsAlphanumeric(Head(s))
         THEN SplitNonAlnum(Tail(s), Append(cur, Head(s)))
         ELSE <<cur>> \o SplitNonAlnum(Tail(s), <<>>)

extract_keywords(text) ==
    LET Keep(t) == ByteLen(t) > 2 /\ t \notin stop_words
    IN  Join(SelectSeq(SplitNonAlnum(ToLower(text), <<>>), Keep), <<" ">>)

(***************************************************************************)
(* Provider routing (ai.rs)                                                *)
(***************************************************************************)

Providers == {"anthropic", "openai", "google", "xai", "perplexity"}

get_model_provider_default_openai(model) ==
    IF StartsWith(model, <<"c","l","a","u","d","e","-">>) THEN "anthropic"
    ELSE IF \/ StartsWith(model, <<"g","p","t","-">>)
            \/ StartsWith(model, <<"o","1">>)
            \/ StartsWith(model, <<"o","3">>) THEN "openai"
    ELSE IF StartsWith(model, <<"g","e","m","i","n","i","-">>) THEN "google"
    ELSE IF StartsWith(model, <<"g","r","o","k","-">>) THEN "xai"
    ELSE IF StartsWith(model, <<"p","e","r","p","l","e","x","i","t","y","-">>)
        THEN "perplexity"
    ELSE "openai"

get_model_provider(model) ==
    IF StartsWith(model, <<"c","l","a","u","d","e","-">>) THEN "anthropic"
    ELSE IF \/ StartsWith(model, <<"g","p","t","-">>)
            \/ StartsWith(model, <<"o","1">>)
            \/ StartsWith(model, <<"o","3">>) THEN "openai"
    ELSE IF StartsWith(model, <<"g","e","m","i","n","i","-">>) THEN "google"
    ELSE IF StartsWith(model, <<"g","r","o","k","-">>) THEN "xai"
    ELSE IF StartsWith(model, <<"p","e","r","p","l","e","x","i","t","y","-">>)
        THEN "perplexity"
    ELSE "anthropic"

\* The model ids the routing is applied to: every head followed by every
\* tail, which covers each prefix, each prefix cut short, and ids that match
\* nothing.
ModelHeads ==
    { <<"c","l","a","u","d","e","-">>, <<"c","l","a","u","d","e">>,
      <<"C","l","a","u","d","e","-">>, <<"x","c","l","a","u","d","e","-">>,
      <<"g","p","t","-">>, <<"g","p","t">>, <<"o","1">>, <<"o","3">>,
      <<"o">>, <<"o","4">>, <<"g","e","m","i","n","i","-">>,
      <<"g","e","m","i","n","i">>, <<"g","r","o","k","-">>, <<"g","r","o","k">>,
      <<"p","e","r","p","l","e","x","i","t","y","-">>,
      <<"p","e","r","p","l","e","x","i","t","y">>,
      <<"u","n","k","n","o","w","n","-">>, <<>> }

ModelTails ==
    { <<>>, <<"x">>, <<"4","o">>, <<"-","m","i","n","i">>, <<"p","r","o">>,
      <<"2">>, <<"s","o","n","a","r">>, <<"m","o","d","e","l">> }

ModelIds == { h \o t : h \in ModelHeads, t \in ModelTails }

(***************************************************************************)
(* State shared by the specifications                                      *)
(***************************************************************************)

NoCall == [op |-> "none"]

InitIdle ==
    /\ settings = [default_model |-> <<>>, keys |-> [p \in Providers |-> <<>>]]
    /\ messages = <<>>
    /\ memories = <<>>
    /\ disk = <<>>
    /\ stored = <<>>
    /\ saves = 0
    /\ chats = 0
    /\ now = 0
    /\ chat = [pc |-> "idle"]
    /\ call = NoCall
    /\ session_files = <<>>
    /\ current_session = [some |-> FALSE]
    /\ settings_file = [some |-> FALSE]
    /\ message_files = <<>>
    /\ network = [p \in Providers |-> [kind |-> "transport"]]
    /\ procs = <<>>

(***************************************************************************)
(* SpecRoute: get_model_provider applied to model ids                      *)
(***************************************************************************)

ResolveProvider ==
    /\ \E m \in ModelIds :
         call' = [op |-> "get_model_provider", model |-> m,
                  ret |-> get_model_provider(m)]
    /\ UNCHANGED <<session_vars, mirror_vars, network, procs, settings, messages, memories, disk, stored, saves, chats, now, chat>>

InitRoute == InitIdle

NextRoute == ResolveProvider

SpecRoute == InitRoute /\ [][NextRoute]_vars

\* What a prefix table without precedence says of a model id.
HasPrefix(m, ps) == \E p \in ps : StartsWith(m, p)

OpenAIPrefixes == { <<"g","p","t","-">>, <<"o","1">>, <<"o","3">> }

PrefixTable ==
    [ openai |-> OpenAIPrefixes,
      google |-> { <<"g","e","m","i","n","i","-">> },
      xai |-> { <<"g","r","o","k","-">> },
      perplexity |-> { <<"p","e","r","p","l","e","x","i","t","y","-">> } ]

RoutingExamples ==
    { << <<"c","l","a","u","d","e","-","x">>, "anthropic" >>,
      << <<"g","p","t","-","4","o">>, "openai" >>,
      << <<"o","3","-","m","i","n","i">>, "openai" >>,
      << <<"g","e","m","i","n","i","-","p","r","o">>, "google" >>,
      << <<"g","r","o","k","-","2">>, "xai" >>,
      << <<"p","e","r","p","l","e","x","i","t","y","-","s","o","n","a","r">>,
         "perplexity" >>,
      << <<"u","n","k","n","o","w","n","-","m","o","d","e","l">>, "anthropic" >> }

\* C2: the provider of a model id is the one whose prefix the id starts with
\* (gpt-, o1, o3 -> openai; gemini- -> google; grok- -> xai; perplexity- ->
\* perplexity), anthropic for claude- and for every id that matches no prefix,
\* and the seven ids of the specification resolve as it lists them.
C2_Routing ==
    call.op = "get_model_provider" =>
        /\ \A p \in DOMAIN PrefixTable :
             call.ret = p <=> HasPrefix(call.model, PrefixTable[p])
        /\ call.ret = "anthropic" <=>
             \A p \in DOMAIN PrefixTable : ~HasPrefix(call.model, PrefixTable[p])
        /\ \A e \in RoutingExamples : call.model = e[1] => call.ret = e[2]

\* An id that starts with o3 was routed to openai.
C2_Witness ==
    /\ call.op = "get_model_provider"
    /\ call.model = <<"o","3","-","m","i","n","i">>
    /\ call.ret = "openai"

(***************************************************************************)
(* SpecKeywords: extract_keywords applied to texts                         *)
(***************************************************************************)

MaxWords == 2

SeqsUpTo(S, n) == UNION { [1..k -> S] : k \in 0..n }

ExampleText ==
    <<"U+8BF7","U+5E2E","U+6211"," ","r","e","m","e","m","b","e","r"," ",
      "t","h","e"," ","d","e","a","d","l","i","n","e"," ","i","s"," ",
      "F","r","i","d","a","y">>

\* Words of one to nine bytes: stop words in both scripts and cases, words
\* that are short in characters but not in bytes, and a word with a
\* separator inside.
KeywordVocabulary ==
    { <<"U+8BF7","U+5E2E","U+6211">>, <<"U+8BF7">>, <<"U+597D">>,
      <<"r","e","m","e","m","b","e","r">>, <<"t","h","e">>, <<"i","s">>,
      <<"F","r","i","d","a","y">>, <<"a","b">>, <<"T","H","E">>,
      <<"n","U+00E9">>, <<"a","-","b","1","c">> }

KeywordTexts ==
    {ExampleText} \cup
    { Join(ws, <<" ">>) : ws \in SeqsUpTo(KeywordVocabulary, MaxWords) }

ExtractKeywords ==
    /\ \E t \in KeywordTexts :
         call' = [op |-> "extract_keywords", text |-> t,
                  ret |-> extract_keywords(t)]
    /\ UNCHANGED <<session_vars, mirror_vars, network, procs, settings, messages, memories, disk, stored, saves, chats, now, chat>>

InitKeywords == InitIdle

NextKeywords == ExtractKeywords

SpecKeywords == InitKeywords /\ [][NextKeywords]_vars

\* The keyword string as the specification words it: tokens longer than two
\* characters that are no stop words.
KeywordsByCharacters(text) ==
    LET Keep(t) == Len(t) > 2 /\ t \notin stop_words
    IN  Join(SelectSeq(SplitNonAlnum(ToLower(text), <<>>), Keep), <<" ">>)

KeywordsOf(ret) == Range(SplitNonAlnum(ret, <<>>))

\* C8: the keyword string is the lower-cased tokens longer than two
\* characters that are not stop words, in order, joined by single spaces;
\* for the example text it has remember, deadline and friday and has neither
\* the three-ideograph opening, nor "the", nor "is".
C8_Keywords ==
    call.op = "extract_keywords" =>
        /\ call.ret = KeywordsByCharacters(call.text)
        /\ call.text = ExampleText =>
             /\ { <<"r","e","m","e","m","b","e","r">>,
                  <<"d","e","a","d","l","i","n","e">>,
                  <<"f","r","i","d","a","y">> } \subseteq KeywordsOf(call.ret)
             /\ KeywordsOf(call.ret) \cap
                  { <<"U+8BF7","U+5E2E","U+6211">>, <<"t","h","e">>,
                    <<"i","s">> } = {}

(***************************************************************************)
(* Context builder (ai.rs)                                                 *)
(***************************************************************************)

RoleUser == <<"u","s","e","r">>
RoleAssistant == <<"a","s","s","i","s","t","a","n","t">>

RelevantHeading ==
    <<"#","#"," ","R","e","l","e","v","a","n","t"," ",
      "M","e","m","o","r","i","e","s","\n">>

RecentHeading ==
    <<"#","#"," ","R","e","c","e","n","t"," ",
      "C","o","n","v","e","r","s","a","t","i","o","n","\n">>

\* .take(5) of the matching memories
MaxRelevant == 5

\* .take(10) of the messages, newest first
RecentWindow == 10

\* Iterator::rev
Reverse(s) == [i \in 1..Len(s) |-> s[Len(s) + 1 - i]]

\* Iterator::take
Take(s, n) == SubSeq(s, 1, IF Len(s) < n THEN Len(s) ELSE n)

\* messages.iter().rev().find(|m| m.role == "user"): the index of the last
\* user message, 0 when there is none.
LastUserIndex(msgs) ==
    IF \E i \in 1..Len(msgs) : msgs[i].role = RoleUser
    THEN CHOOSE i \in 1..Len(msgs) :
             /\ msgs[i].role = RoleUser
             /\ \A j \in (i + 1)..Len(msgs) : msgs[j].role # RoleUser
    ELSE 0

\* The filter of build_context: the lower-cased title, some tag or some
\* entity contains the query.
MatchesQuery(m, query) ==
    \/ Contains(ToLower(m.title), query)
    \/ \E i \in 1..Len(m.tags) : Contains(ToLower(m.tags[i]), query)
    \/ \E i \in 1..Len(m.entities) : Contains(ToLower(m.entities[i]), query)

relevant_memories(msgs, mems) ==
    LET u == LastUserIndex(msgs)
        query == IF u = 0 THEN <<>> ELSE extract_keywords(msgs[u].content)
        Match(m) == MatchesQuery(m, query)
    IN  IF u = 0 \/ query = <<>> THEN <<>>
        ELSE Take(SelectSeq(mems, Match), MaxRelevant)

recent_messages_newest_first(msgs) == Take(Reverse(msgs), RecentWindow)

\* messages.iter().rev().take(10), iterated with .rev()
recent_messages(msgs) == Reverse(Take(Reverse(msgs), RecentWindow))

MemoryBlock(m) ==
    [kind |-> "memory",
     text |-> <<"#","#","#"," ">> \o m.title \o <<"\n">> \o m.content
              \o <<"\n","\n">>]

MessageLine(msg) ==
    [kind |-> "message",
     text |-> msg.role \o <<":"," ">> \o msg.content \o <<"\n">>]

\* The pieces build_context pushes onto the context string, in order, each
\* with the push_str that produced it.
context_parts_always_recent(msgs, mems) ==
    LET relevant == relevant_memories(msgs, mems)
        recent == recent_messages(msgs)
    IN  (IF relevant # <<>>
         THEN <<[kind |-> "relevant_heading", text |-> RelevantHeading]>>
              \o [i \in 1..Len(relevant) |-> MemoryBlock(relevant[i])]
         ELSE <<>>)
        \o
        (IF msgs # <<>>
         THEN <<[kind |-> "recent_heading", text |-> RecentHeading]>>
              \o [i \in 1..Len(recent) |-> MessageLine(recent[i])]
         ELSE <<>>)

context_parts(msgs, mems) ==
    LET relevant == relevant_memories(msgs, mems)
        recent == recent_messages(msgs)
    IN  (IF relevant # <<>>
         THEN <<[kind |-> "relevant_heading", text |-> RelevantHeading]>>
              \o [i \in 1..Len(relevant) |-> MemoryBlock(relevant[i])]
         ELSE <<>>)
        \o
        (IF mems = <<>> /\ msgs # <<>>
         THEN <<[kind |-> "recent_heading", text |-> RecentHeading]>>
              \o [i \in 1..Len(recent) |-> MessageLine(recent[i])]
         ELSE <<>>)

PartTexts(parts) == [i \in 1..Len(parts) |-> parts[i].text]

build_context(msgs, mems) == Concat(PartTexts(context_parts(msgs, mems)))

(***************************************************************************)
(* SpecContext: build_context applied to message logs and memory indexes   *)
(***************************************************************************)

\* The longest log with an empty index, beyond the window of 10.
MaxLog == 12

\* The longest log and index when the index is not empty.
MaxCtxLog == 2
MaxIndex == 6

Msg(role, content) == [role |-> role, content |-> content, timestamp |-> 0]

LongLogMessages ==
    { Msg(RoleUser, <<"t","h","e"," ","d","e","a","d","l","i","n","e">>),
      Msg(RoleAssistant, <<"o","k">>) }

\* User messages whose keywords are "deadline", "friday" and nothing, and a
\* reply.
ShortLogMessages ==
    { Msg(RoleUser, <<"t","h","e"," ","d","e","a","d","l","i","n","e">>),
      Msg(RoleUser, <<"o","n"," ","F","r","i","d","a","y">>),
      Msg(RoleUser, <<"i","s"," ","i","t">>),
      Msg(RoleAssistant, <<"D","e","a","d","l","i","n","e"," ","n","o","t","e","d">>) }

Mem(id, title, tags, entities) ==
    [id |-> id, title |-> title, content |-> <<"D","u","e">>,
     memory_type |-> <<"W","O","R","K">>, timestamp |-> 0,
     tags |-> tags, entities |-> entities, confidence |-> 10]

\* A record that matches "deadline" by its title and "friday" not at all, and
\* one that matches "deadline" by a tag and "friday" by an entity.
IndexRecords ==
    { Mem(<<"a">>, <<"D","e","a","d","l","i","n","e">>, <<>>, <<>>),
      Mem(<<"b">>, <<"N","o","t","e">>, << <<"D","E","A","D","L","I","N","E">> >>,
          << <<"F","r","i","d","a","y">> >>) }

ContextInputs ==
    (SeqsUpTo(LongLogMessages, MaxLog) \X {<<>>})
    \cup (SeqsUpTo(ShortLogMessages, MaxCtxLog) \X SeqsUpTo(IndexRecords, MaxIndex))

InitContext ==
    /\ \E in \in ContextInputs :
         /\ messages = in[1]
         /\ memories = in[2]
    /\ settings = [default_model |-> <<>>, keys |-> [p \in Providers |-> <<>>]]
    /\ disk = <<>>
    /\ stored = <<>>
    /\ saves = 0
    /\ chats = 0
    /\ now = 0
    /\ chat = [pc |-> "idle"]
    /\ call = NoCall
    /\ session_files = <<>>
    /\ current_session = [some |-> FALSE]
    /\ settings_file = [some |-> FALSE]
    /\ message_files = <<>>
    /\ network = [p \in Providers |-> [kind |-> "transport"]]
    /\ procs = <<>>

BuildContext ==
    /\ call' = [op |-> "build_context",
                parts |-> context_parts(messages, memories),
                ret |-> build_context(messages, memories)]
    /\ UNCHANGED <<session_vars, mirror_vars, network, procs, settings, messages, memories, disk, stored, saves, chats, now, chat>>

NextContext == BuildContext

SpecContext == InitContext /\ [][NextContext]_vars

Min(a, b) == IF a < b THEN a ELSE b

KindCount(parts, kind) ==
    Cardinality({ i \in 1..Len(parts) : parts[i].kind = kind })

\* C9: with an empty index and a log of n > 0 messages, the context is the
\* Recent Conversation heading followed by one "role: content" line for each
\* of the last min(n, 10) messages, in log order.
C9_RecentWindow ==
    (call.op = "build_context" /\ memories = <<>> /\ messages # <<>>) =>
        LET n == Len(messages)
            k == Min(n, 10)
            Line(i) == messages[n - k + i].role \o <<":"," ">>
                       \o messages[n - k + i].content \o <<"\n">>
        IN  /\ Len(call.parts) = k + 1
            /\ call.parts[1].text = RecentHeading
            /\ \A i \in 1..k : call.parts[i + 1].text = Line(i)
            /\ call.ret = RecentHeading \o Concat([i \in 1..k |-> Line(i)])

\* A log of 12 messages, not all alike, was rendered with an empty index.
C9_Witness ==
    /\ call.op = "build_context"
    /\ memories = <<>>
    /\ Len(messages) = 12
    /\ messages[3] # messages[2]
    /\ messages[12] # messages[11]
    /\ Len(call.parts) = 11

\* C10: the context has at most 5 memory blocks, never both the Relevant
\* Memories and the Recent Conversation heading, and no Recent Conversation
\* heading when the index is not empty.
C10_Exclusive ==
    call.op = "build_context" =>
        /\ KindCount(call.parts, "memory") <= 5
        /\ ~ /\ KindCount(call.parts, "relevant_heading") > 0
             /\ KindCount(call.parts, "recent_heading") > 0
        /\ memories # <<>> => KindCount(call.parts, "recent_heading") = 0
        /\ call.ret = Concat(PartTexts(call.parts))

\* Six records of the index match the last user message and five were
\* rendered, with no Recent Conversation section.
C10_Witness ==
    /\ call.op = "build_context"
    /\ messages # <<>>
    /\ Len(memories) = 6
    /\ Len(relevant_memories(messages, memories)) = 5
    /\ \E i \in 1..6 : memories[i].id = <<"b">>
    /\ KindCount(call.parts, "memory") = 5
    /\ KindCount(call.parts, "recent_heading") = 0

(***************************************************************************)
(* Memory files (memory.rs): the serialised form and its parser            *)
(***************************************************************************)

Dash3 == <<"-","-","-">>

\* str::find: the index of the first occurrence of p in s at or after from,
\* 0 if none.
RECURSIVE Find(_, _, _)
Find(s, p, from) ==
    IF from > Len(s) - Len(p) + 1 THEN 0
    ELSE IF SubSeq(s, from, from + Len(p) - 1) = p THEN from
    ELSE Find(s, p, from + 1)

\* str::splitn(n, p)
RECURSIVE SplitN(_, _, _)
SplitN(s, n, p) ==
    LET i == Find(s, p, 1)
    IN  IF n <= 1 \/ i = 0 THEN <<s>>
        ELSE <<SubSeq(s, 1, i - 1)>>
             \o SplitN(SubSeq(s, i + Len(p), Len(s)), n - 1, p)

\* str::split(p)
RECURSIVE Split(_, _)
Split(s, p) ==
    LET i == Find(s, p, 1)
    IN  IF i = 0 THEN <<s>>
        ELSE <<SubSeq(s, 1, i - 1)>> \o Split(SubSeq(s, i + Len(p), Len(s)), p)

\* str::lines: the pieces between line feeds, without a final empty piece.
Lines(s) ==
    LET pieces == Split(s, <<"\n">>)
    IN  IF pieces[Len(pieces)] = <<>>
        THEN SubSeq(pieces, 1, Len(pieces) - 1)
        ELSE pieces

IsWhitespace(c) == c \in {" ", "\n", "\t", "\r"}

\* str::trim_start
RECURSIVE TrimStart(_)
TrimStart(s) ==
    IF s # <<>> /\ IsWhitespace(s[1]) THEN TrimStart(Tail(s)) ELSE s

\* str::trim_end
RECURSIVE TrimEnd(_)
TrimEnd(s) ==
    IF s # <<>> /\ IsWhitespace(s[Len(s)])
    THEN TrimEnd(SubSeq(s, 1, Len(s) - 1))
    ELSE s

\* str::trim
Trim(s) == TrimEnd(TrimStart(s))

DigitChars == <<"0","1","2","3","4","5","6","7","8","9">>

\* Display of a non-negative integer
RECURSIVE FormatNat(_)
FormatNat(n) ==
    IF n < 10 THEN <<DigitChars[n + 1]>>
    ELSE FormatNat(n \div 10) \o <<DigitChars[(n % 10) + 1]>>

\* Display of an i64
FormatInt(n) == IF n < 0 THEN <<"-">> \o FormatNat(0 - n) ELSE FormatNat(n)

DigitValue(c) == (CHOOSE i \in 1..10 : DigitChars[i] = c) - 1

IsDigits(s) == s # <<>> /\ \A i \in 1..Len(s) : s[i] \in Digits

RECURSIVE NatValue(_)
NatValue(s) ==
    IF s = <<>> THEN 0
    ELSE 10 * NatValue(SubSeq(s, 1, Len(s) - 1)) + DigitValue(s[Len(s)])

\* value.parse::<i64>().unwrap_or(0): an optional sign and digits.
ParseTimestamp(value) ==
    IF IsDigits(value) THEN NatValue(value)
    ELSE IF value # <<>> /\ value[1] = "-" /\ IsDigits(Tail(value))
         THEN 0 - NatValue(Tail(value))
    ELSE IF value # <<>> /\ value[1] = "+" /\ IsDigits(Tail(value))
         THEN NatValue(Tail(value))
    ELSE 0

\* A confidence is held in tenths (10 is 1.0).  Display of an f32 prints
\* the shortest decimal that reads back as the same value: "1", "0.5".
FormatConfidence(tenths) ==
    IF tenths % 10 = 0 THEN FormatNat(tenths \div 10)
    ELSE FormatNat(tenths \div 10) \o <<".">> \o <<DigitChars[(tenths % 10) + 1]>>

\* value.parse::<f32>().unwrap_or(1.0), for decimals with at most one
\* fractional digit; anything that is no number reads as 1.0.
ParseConfidence(value) ==
    LET dot == Find(value, <<".">>, 1)
    IN  IF IsDigits(value) THEN 10 * NatValue(value)
        ELSE IF /\ dot > 1
                /\ dot = Len(value) - 1
                /\ IsDigits(SubSeq(value, 1, dot - 1))
                /\ value[Len(value)] \in Digits
             THEN 10 * NatValue(SubSeq(value, 1, dot - 1))
                  + DigitValue(value[Len(value)])
        ELSE 10

\* The text save_memory writes for a record.
Frontmatter(memory) ==
    Dash3 \o <<"\n">>
    \o <<"i","d",":"," ">> \o memory.id \o <<"\n">>
    \o <<"t","i","t","l","e",":"," ">> \o memory.title \o <<"\n">>
    \o <<"t","y","p","e",":"," ">> \o memory.memory_type \o <<"\n">>
    \o <<"t","a","g","s",":"," ">> \o Join(memory.tags, <<","," ">>) \o <<"\n">>
    \o <<"e","n","t","i","t","i","e","s",":"," ">>
    \o Join(memory.entities, <<","," ">>) \o <<"\n">>
    \o <<"c","o","n","f","i","d","e","n","c","e",":"," ">>
    \o FormatConfidence(memory.confidence) \o <<"\n">>
    \o <<"t","i","m","e","s","t","a","m","p",":"," ">>
    \o FormatInt(memory.timestamp) \o <<"\n">>
    \o Dash3 \o <<"\n","\n">>
    \o memory.content

None == [some |-> FALSE]
Some(v) == [some |-> TRUE, value |-> v]

\* One header line of parse_markdown_memory applied to the fields read so far.
HeaderLine(rec, rawline) ==
    LET line == Trim(rawline)
        i == Find(line, <<":"," ">>, 1)
        key == SubSeq(line, 1, i - 1)
        value == Trim(SubSeq(line, i + 2, Len(line)))
    IN  IF i = 0 THEN rec
        ELSE IF key = <<"i","d">> THEN [rec EXCEPT !.id = value]
        ELSE IF key = <<"t","i","t","l","e">> THEN [rec EXCEPT !.title = value]
        ELSE IF key = <<"t","y","p","e">> THEN [rec EXCEPT !.memory_type = value]
        ELSE IF key = <<"t","a","g","s">>
             THEN [rec EXCEPT !.tags = Split(value, <<","," ">>)]
        ELSE IF key = <<"e","n","t","i","t","i","e","s">>
             THEN [rec EXCEPT !.entities = Split(value, <<","," ">>)]
        ELSE IF key = <<"c","o","n","f","i","d","e","n","c","e">>
             THEN [rec EXCEPT !.confidence = ParseConfidence(value)]
        ELSE IF key = <<"t","i","m","e","s","t","a","m","p">>
             THEN [rec EXCEPT !.timestamp = ParseTimestamp(value)]
        ELSE rec

RECURSIVE HeaderLines(_, _)
HeaderLines(rec, lines) ==
    IF lines = <<>> THEN rec
    ELSE HeaderLines(HeaderLine(rec, Head(lines)), Tail(lines))

parse_markdown_memory_no_title_check(content, default_type) ==
    LET parts == SplitN(content, 3, Dash3)
        rec == HeaderLines(
                   [id |-> <<>>, title |-> <<>>, content |-> Trim(parts[3]),
                    memory_type |-> default_type, timestamp |-> 0,
                    tags |-> <<>>, entities |-> <<>>, confidence |-> 10],
                   Lines(parts[2]))
    IN  IF ~StartsWith(content, Dash3) THEN None
        ELSE IF Len(parts) < 3 THEN None
        ELSE IF rec.id = <<>> THEN None
        ELSE Some(rec)

parse_markdown_memory(content, default_type) ==
    LET parts == SplitN(content, 3, Dash3)
        rec == HeaderLines(
                   [id |-> <<>>, title |-> <<>>, content |-> Trim(parts[3]),
                    memory_type |-> default_type, timestamp |-> 0,
                    tags |-> <<>>, entities |-> <<>>, confidence |-> 10],
                   Lines(parts[2]))
    IN  IF ~StartsWith(content, Dash3) THEN None
        ELSE IF Len(parts) < 3 THEN None
        ELSE IF rec.id = <<>> \/ rec.title = <<>> THEN None
        ELSE Some(rec)

(***************************************************************************)
(* Memory store (memory.rs)                                                *)
(***************************************************************************)

TypeWork == <<"W","O","R","K">>
TypeLearning == <<"L","E","A","R","N","I","N","G">>
TypeRelationship == <<"R","E","L","A","T","I","O","N","S","H","I","P">>
TypeGeneral == <<"g","e","n","e","r","a","l">>

\* The directories in the order load_memories_from_disk and delete_memory
\* visit them, each with the type it gives to a file that names none.
Dirs ==
    << [dir |-> "WORK", mem_type |-> TypeWork],
       [dir |-> "LEARNING", mem_type |-> TypeLearning],
       [dir |-> "RELATIONSHIP", mem_type |-> TypeRelationship],
       [dir |-> "general", mem_type |-> TypeGeneral] >>

\* match memory.memory_type.as_str()
memory_dir(memory_type) ==
    IF memory_type = TypeWork THEN "WORK"
    ELSE IF memory_type = TypeLearning THEN "LEARNING"
    ELSE IF memory_type = TypeRelationship THEN "RELATIONSHIP"
    ELSE "general"

\* memory_dir.join(format!("{}.md", id))
MemoryPath(dir, id) == [dir |-> dir, name |-> id \o <<".","m","d">>]

\* Path::extension: what follows the last dot of the file name, none for a
\* name without a dot or with its only dot in front.
Extension(name) ==
    LET dots == { i \in 1..Len(name) : name[i] = "." }
        last == CHOOSE i \in dots : \A j \in dots : i >= j
    IN  IF dots = {} THEN None
        ELSE IF last = 1 THEN None
        ELSE Some(SubSeq(name, last + 1, Len(name)))

\* fs::write
WriteFile(d, path, content) ==
    [p \in DOMAIN d \cup {path} |-> IF p = path THEN content ELSE d[p]]

\* fs::remove_file
RemoveFile(d, path) == [p \in DOMAIN d \ {path} |-> d[p]]

\* The orders in which read_dir may list a set of entries.
Orders(S) ==
    { o \in [1..Cardinality(S) -> S] :
          \A i, j \in 1..Cardinality(S) : i # j => o[i] # o[j] }

\* The inner loop of load_memories_from_disk for one directory entry: the
\* record it pushes, if any.
ScanEntry(d, path, mem_type) ==
    IF Extension(path.name) = Some(<<"m","d">>)
    THEN parse_markdown_memory(d[path], mem_type)
    ELSE None

\* all_memories.sort_by(|a, b| b.timestamp.cmp(&a.timestamp)): a stable
\* sort, newest first.
RECURSIVE SortNewestFirst(_)
SortNewestFirst(s) ==
    IF s = <<>> THEN <<>>
    ELSE LET front == SortNewestFirst(SubSeq(s, 1, Len(s) - 1))
             x == s[Len(s)]
             k == Cardinality({ i \in 1..Len(front) :
                                    front[i].timestamp >= x.timestamp })
         IN  SubSeq(front, 1, k) \o <<x>> \o SubSeq(front, k + 1, Len(front))

\* The entries of a directory that push a record, each with its record.
PushedBy(d, i) ==
    { [path |-> p, memory |-> ScanEntry(d, p, Dirs[i].mem_type).value] :
        p \in { q \in DOMAIN d :
                   /\ q.dir = Dirs[i].dir
                   /\ ScanEntry(d, q, Dirs[i].mem_type).some } }

Memories(o) == [k \in 1..Len(o) |-> o[k].memory]

\* The lists a scan of the four directories can produce: read_dir lists the
\* entries of a directory in no particular order, and the entries that push
\* nothing leave no trace in the list.
ScanResults(d) ==
    { SortNewestFirst(Memories(o1) \o Memories(o2) \o Memories(o3) \o Memories(o4)) :
        o1 \in Orders(PushedBy(d, 1)), o2 \in Orders(PushedBy(d, 2)),
        o3 \in Orders(PushedBy(d, 3)), o4 \in Orders(PushedBy(d, 4)) }

LastDirWith(d, memory_id) ==
    LET hits == { i \in 1..Len(Dirs) :
                      MemoryPath(Dirs[i].dir, memory_id) \in DOMAIN d }
    IN  IF hits = {} THEN 0 ELSE CHOOSE i \in hits : \A j \in hits : i >= j

\* The first directory, in delete_memory's order, that has a file for the
\* id; 0 when none has.
FirstDirWith(d, memory_id) ==
    LET hits == { i \in 1..Len(Dirs) :
                      MemoryPath(Dirs[i].dir, memory_id) \in DOMAIN d }
    IN  IF hits = {} THEN 0 ELSE CHOOSE i \in hits : \A j \in hits : i <= j

\* memories.retain(|m| m.id != memory_id)
RetainOthers(mems, memory_id) ==
    LET Keep(m) == m.id # memory_id IN SelectSeq(mems, Keep)

(***************************************************************************)
(* SpecMemory: save_memory, load_memories_from_disk and delete_memory on a *)
(* store that may already hold files written by hand                       *)
(***************************************************************************)

\* The number of files save_memory writes in a run.
MaxSaves == 2

BaseItem ==
    [id |-> <<"a">>, title |-> <<"P","l","a","n">>, content |-> <<"x"," ","y">>,
     memory_type |-> TypeWork, timestamp |-> 17,
     tags |-> << <<"t","1">>, <<"u">> >>, entities |-> << <<"e">> >>,
     confidence |-> 5]

BareItem ==
    [id |-> <<"b">>, title |-> <<"T">>, content |-> <<"c">>,
     memory_type |-> TypeGeneral, timestamp |-> 0,
     tags |-> <<>>, entities |-> <<>>, confidence |-> 10]

\* Records written as they are, with every field set and free of the
\* characters the file format gives a meaning to.
PlainItems ==
    { BaseItem, BareItem,
      [BareItem EXCEPT !.memory_type = <<"O","T","H","E","R">>,
                       !.timestamp = -3] }

\* The records save_memory is called with: the plain ones, and records with
\* a body that ends in a line feed, an empty body, an empty title, and a
\* title that holds the delimiter.
SaveItems ==
    PlainItems \cup
    { [BaseItem EXCEPT !.content = <<"x","\n">>],
      [BareItem EXCEPT !.content = <<>>],
      [BaseItem EXCEPT !.title = <<>>],
      [BaseItem EXCEPT !.title = <<"a","-","-","-","b">>,
                       !.memory_type = TypeLearning] }

\* Files put into the store by hand.  A well-formed one comes with the
\* record it stands for; a malformed one with the id and title it would
\* show up under if it were read.
WellFormedFile ==
    [path |-> [dir |-> "LEARNING", name |-> <<"e","1",".","m","d">>],
     content |-> <<"-","-","-","\n","i","d",":"," ","e","1","\n",
                   "t","i","t","l","e",":"," ","P","l","a","n","\n",
                   "-","-","-","\n","b","o","d","y">>,
     record |-> [id |-> <<"e","1">>, title |-> <<"P","l","a","n">>,
                 content |-> <<"b","o","d","y">>, memory_type |-> TypeLearning,
                 timestamp |-> 0, tags |-> <<>>, entities |-> <<>>,
                 confidence |-> 10]]

MalformedFiles ==
    { \* no id in the header
      [path |-> [dir |-> "WORK", name |-> <<"m","1",".","m","d">>],
       content |-> <<"-","-","-","\n","t","i","t","l","e",":"," ","T","1","\n",
                     "-","-","-","\n","x">>,
       id |-> <<"m","1">>, title |-> <<"T","1">>],
      \* no title in the header
      [path |-> [dir |-> "general", name |-> <<"m","2",".","m","d">>],
       content |-> <<"-","-","-","\n","i","d",":"," ","m","2","\n",
                     "-","-","-","\n","x">>,
       id |-> <<"m","2">>, title |-> <<"T","2">>],
      \* no delimited header at all
      [path |-> [dir |-> "general", name |-> <<"m","3",".","m","d">>],
       content |-> <<"i","d",":"," ","m","3","\n",
                     "t","i","t","l","e",":"," ","T","3","\n","\n","x">>,
       id |-> <<"m","3">>, title |-> <<"T","3">>],
      \* a header that is never closed
      [path |-> [dir |-> "RELATIONSHIP", name |-> <<"m","4",".","m","d">>],
       content |-> <<"-","-","-","\n","i","d",":"," ","m","4","\n",
                     "t","i","t","l","e",":"," ","T","4","\n","x">>,
       id |-> <<"m","4">>, title |-> <<"T","4">>] }

HandWrittenFiles == {WellFormedFile} \cup MalformedFiles

\* The stores the program may find at startup: nothing, the well-formed
\* file alone, the malformed files alone, or all of them.
InitialStores == { {}, {WellFormedFile}, MalformedFiles, HandWrittenFiles }

StoreOf(files) ==
    [p \in { f.path : f \in files } |->
        (CHOOSE f \in files : f.path = p).content]

DeleteIds == { <<"a">>, <<"b">>, <<"e","1">> }

InitMemory ==
    /\ \E files \in InitialStores : disk = StoreOf(files)
    /\ stored = <<>>
    /\ saves = 0
    /\ chats = 0
    /\ memories = <<>>
    /\ settings = [default_model |-> <<>>, keys |-> [p \in Providers |-> <<>>]]
    /\ messages = <<>>
    /\ now = 0
    /\ chat = [pc |-> "idle"]
    /\ call = NoCall
    /\ session_files = <<>>
    /\ current_session = [some |-> FALSE]
    /\ settings_file = [some |-> FALSE]
    /\ message_files = <<>>
    /\ network = [p \in Providers |-> [kind |-> "transport"]]
    /\ procs = <<>>

\* save_memory: ensure_dirs and fs::write, then the push under the lock.
\* A failure of either file operation returns before anything changes.
save_memory(memory, io_ok) ==
    LET path == MemoryPath(memory_dir(memory.memory_type), memory.id)
    IN  /\ saves < MaxSaves
        /\ IF io_ok
           THEN /\ disk' = WriteFile(disk, path, Frontmatter(memory))
                /\ memories' = Append(memories, memory)
                /\ stored' = WriteFile(stored, path, memory)
                /\ saves' = saves + 1
           ELSE UNCHANGED <<disk, memories, stored, saves>>
        /\ call' = IF io_ok
                   THEN [op |-> "save_memory", ok |-> TRUE, memory |-> memory]
                   ELSE [op |-> "save_memory", ok |-> FALSE]
        /\ UNCHANGED <<session_vars, mirror_vars, network, procs, settings, messages, chats, now, chat>>

SaveMemory == \E memory \in SaveItems, io_ok \in BOOLEAN : save_memory(memory, io_ok)

\* load_memories_from_disk: ensure_dirs, the scan of the four directories,
\* the sort, and the replacement of the index under the lock.
load_memories_from_disk(io_ok) ==
    /\ IF io_ok
       THEN \E all_memories \in ScanResults(disk) :
                /\ memories' = all_memories
                /\ call' = [op |-> "load_memories_from_disk", io_ok |-> TRUE,
                            ok |-> TRUE, ret |-> all_memories]
       ELSE /\ UNCHANGED memories
            /\ call' = [op |-> "load_memories_from_disk", io_ok |-> FALSE,
                        ok |-> FALSE]
    /\ UNCHANGED <<session_vars, mirror_vars, network, procs, settings, messages, disk, stored, saves, chats, now, chat>>

LoadMemories == \E io_ok \in BOOLEAN : load_memories_from_disk(io_ok)

\* delete_memory: remove the first file found for the id, then strip the id
\* from the index.  A failing fs::remove_file returns before the index is
\* touched.
delete_memory(memory_id, io_ok) ==
    LET i == FirstDirWith(disk, memory_id)
        path == MemoryPath(Dirs[i].dir, memory_id)
    IN  /\ IF i # 0 /\ ~io_ok
           THEN /\ UNCHANGED <<disk, stored, memories>>
                /\ call' = [op |-> "delete_memory", memory_id |-> memory_id,
                            ok |-> FALSE]
           ELSE /\ disk' = IF i = 0 THEN disk ELSE RemoveFile(disk, path)
                /\ stored' = IF i = 0 THEN stored ELSE RemoveFile(stored, path)
                /\ memories' = RetainOthers(memories, memory_id)
                /\ call' = [op |-> "delete_memory", memory_id |-> memory_id,
                            ok |-> TRUE, removed |-> IF i = 0 THEN 0 ELSE 1]
        /\ UNCHANGED <<session_vars, mirror_vars, network, procs, settings, messages, saves, chats, now, chat>>

DeleteMemory ==
    \E memory_id \in DeleteIds, io_ok \in BOOLEAN : delete_memory(memory_id, io_ok)

NextMemory == SaveMemory \/ LoadMemories \/ DeleteMemory

SpecMemory == InitMemory /\ [][NextMemory]_vars

OnDisk(f) == f.path \in DOMAIN disk /\ disk[f.path] = f.content

\* C5: after a load, every record that save_memory wrote and that is still
\* on disk, with an id, a title and a body, is in the loaded list, equal in
\* every field.
C5_RoundTrip ==
    (call.op = "load_memories_from_disk" /\ call.ok) =>
        \A p \in DOMAIN stored :
            (stored[p].id # <<>> /\ stored[p].title # <<>> /\ stored[p].content # <<>>)
                => stored[p] \in Range(call.ret)

\* C6: a load with the directories in place succeeds whatever the files hold;
\* a hand-written file without id, without title or without a closed header
\* yields no record, and the well-formed hand-written file and every plain
\* record written by save_memory are in the loaded list.
C6_MalformedSkipped ==
    call.op = "load_memories_from_disk" =>
        /\ call.ok = call.io_ok
        /\ call.ok =>
             /\ \A f \in MalformedFiles :
                  OnDisk(f) =>
                      \A i \in 1..Len(call.ret) :
                          call.ret[i].id # f.id /\ call.ret[i].title # f.title
             /\ OnDisk(WellFormedFile) => WellFormedFile.record \in Range(call.ret)
             /\ \A p \in DOMAIN stored :
                  stored[p] \in PlainItems => stored[p] \in Range(call.ret)

\* A load of a store that holds every malformed file, the well-formed file
\* and a plain record returned the latter two.
C6_Witness ==
    /\ call.op = "load_memories_from_disk"
    /\ call.ok
    /\ \A f \in HandWrittenFiles : OnDisk(f)
    /\ \E p \in DOMAIN stored : stored[p] \in PlainItems
    /\ Len(call.ret) = 2

\* C7: every record of a loaded list has a title and a body.
C7_NonEmpty ==
    (call.op = "load_memories_from_disk" /\ call.ok) =>
        \A i \in 1..Len(call.ret) :
            call.ret[i].title # <<>> /\ call.ret[i].content # <<>>

(***************************************************************************)
(* Chat (ai.rs): the orchestrator and the provider adapters                *)
(***************************************************************************)

Ok(text) == [ok |-> TRUE, text |-> text]
Err(text) == [ok |-> FALSE, text |-> text]

\* The provider's name as the adapters' error messages spell it.
ProviderLabel ==
    [anthropic |-> <<"A","n","t","h","r","o","p","i","c">>,
     openai |-> <<"O","p","e","n","A","I">>,
     google |-> <<"G","o","o","g","l","e">>,
     xai |-> <<"x","A","I">>,
     perplexity |-> <<"P","e","r","p","l","e","x","i","t","y">>]

\* The host each adapter posts to.
ProviderHost ==
    [anthropic |-> "api.anthropic.com",
     openai |-> "api.openai.com",
     google |-> "generativelanguage.googleapis.com",
     xai |-> "api.x.ai",
     perplexity |-> "api.perplexity.ai"]

NotConfigured(p) ==
    Err(ProviderLabel[p]
        \o <<" ","A","P","I"," ","k","e","y"," ","n","o","t"," ",
             "c","o","n","f","i","g","u","r","e","d">>)

\* str::trim_start_matches: the prefix removed as often as it repeats.
RECURSIVE TrimStartMatches(_, _)
TrimStartMatches(s, p) ==
    IF p # <<>> /\ StartsWith(s, p)
    THEN TrimStartMatches(SubSeq(s, Len(p) + 1, Len(s)), p)
    ELSE s

\* The model name an adapter puts on the wire.
WireModel(p, model) ==
    IF p = "perplexity"
    THEN <<"l","l","a","m","a","-","3",".","1","-","s","o","n","a","r","-">>
         \o TrimStartMatches(model, <<"p","e","r","p","l","e","x","i","t","y","-">>)
         \o <<"-","1","2","8","k","-","o","n","l","i","n","e">>
    ELSE model

\* The request an adapter sends: Google and Perplexity drop the system
\* prompt.
Request(p, keys, model, message, system_prompt) ==
    [host |-> ProviderHost[p],
     key |-> keys[p],
     model |-> WireModel(p, model),
     system |-> IF p \in {"google", "perplexity"} THEN None ELSE system_prompt,
     message |-> message]

\* What a request can come to: the send fails, the status is not 2xx, the
\* reply has no text, or the reply text.
Outcomes == {"transport", "status", "empty", "ok"}

ReplyText == <<"o","k">>

Response(p, outcome) ==
    IF outcome = "ok" THEN Ok(ReplyText)
    ELSE IF outcome = "transport"
         THEN Err(<<"e","r","r","o","r"," ","s","e","n","d","i","n","g"," ",
                    "r","e","q","u","e","s","t">>)
    ELSE IF outcome = "status"
         THEN Err(ProviderLabel[p]
                  \o <<" ","A","P","I"," ","e","r","r","o","r"," ","(">>
                  \o <<"5","0","0"," ","I","n","t","e","r","n","a","l"," ",
                       "S","e","r","v","e","r"," ","E","r","r","o","r">>
                  \o <<")",":"," ">>)
    ELSE Err(<<"E","m","p","t","y"," ","r","e","s","p","o","n","s","e"," ",
               "f","r","o","m"," ">> \o ProviderLabel[p])

adapter_always_anthropic(provider) == "anthropic"

\* match provider { ... }: the adapter a provider name selects.
adapter(provider) ==
    IF provider \in Providers THEN provider ELSE "anthropic"

key_missing_anthropic(p, keys) == keys["anthropic"] = <<>>

\* settings.<provider>.is_empty(), the first test of every adapter
key_missing(p, keys) ==
    keys[p] = <<>>

pushed_with_reply_always(user_message, assistant_message, response) ==
    <<user_message, assistant_message>>

\* The messages chat pushes under the lock: the user's, and the assistant's
\* if the response is Ok.
pushed(user_message, assistant_message, response) ==
    IF response.ok THEN <<user_message, assistant_message>>
    ELSE <<user_message>>

\* format!("{}\n\nUser: {}", context, message), or the message alone
FullMessage_always_prefixed(context, message) ==
    context \o <<"\n","\n","U","s","e","r",":"," ">> \o message

FullMessage(context, message) ==
    IF context = <<>> THEN message
    ELSE context \o <<"\n","\n","U","s","e","r",":"," ">> \o message

Idle == [pc |-> "idle"]

\* chat, up to the release of the settings lock: the default model and the
\* keys are copied, the model and its provider resolved.
ChatStart(message, model, system_prompt) ==
    LET effective == IF model.some THEN model.value ELSE settings.default_model
    IN  /\ chat.pc = "idle"
        /\ chat' = [pc |-> "context",
                    message |-> message,
                    model_arg |-> model,
                    system_prompt |-> system_prompt,
                    default_model |-> settings.default_model,
                    api_keys |-> settings.keys,
                    model |-> effective,
                    provider |-> get_model_provider(effective),
                    context |-> <<>>,
                    full_message |-> <<>>,
                    user_message |-> None,
                    requests |-> <<>>,
                    response |-> None]
        /\ chats' = chats + 1
        /\ UNCHANGED <<session_vars, mirror_vars, network, procs, settings, messages, memories, disk, stored, saves, now, call>>

\* build_context under the messages and memories locks, then the full
\* message and the user's ChatMessage with the current time.
ChatContext ==
    /\ chat.pc = "context"
    /\ LET context == build_context(messages, memories)
       IN  chat' = [chat EXCEPT
                      !.pc = "dispatch",
                      !.context = context,
                      !.full_message = FullMessage(context, chat.message),
                      !.user_message = [role |-> RoleUser,
                                        content |-> chat.message,
                                        timestamp |-> now]]
    /\ UNCHANGED <<session_vars, mirror_vars, network, procs, settings, messages, memories, disk, stored, saves, chats, now, call>>

\* The adapter of the provider: without a key it returns the error at once,
\* with one it sends its request.
ChatDispatch ==
    /\ chat.pc = "dispatch"
    /\ LET p == adapter(chat.provider)
       IN  IF key_missing(p, chat.api_keys)
           THEN chat' = [chat EXCEPT !.pc = "commit", !.response = NotConfigured(p)]
           ELSE chat' = [chat EXCEPT
                           !.pc = "await",
                           !.requests = Append(@, Request(p, chat.api_keys, chat.model,
                                                          chat.full_message,
                                                          chat.system_prompt))]
    /\ UNCHANGED <<session_vars, mirror_vars, network, procs, settings, messages, memories, disk, stored, saves, chats, now, call>>

\* The request comes back, or fails.
ChatRespond ==
    /\ chat.pc = "await"
    /\ \E outcome \in Outcomes :
         chat' = [chat EXCEPT !.pc = "commit",
                              !.response = Response(adapter(chat.provider), outcome)]
    /\ UNCHANGED <<session_vars, mirror_vars, network, procs, settings, messages, memories, disk, stored, saves, chats, now, call>>

ChatCommitThenExtract ==
    /\ chat.pc = "commit"
    /\ LET assistant_message == [role |-> RoleAssistant,
                                 content |-> chat.response.text,
                                 timestamp |-> now]
       IN  /\ messages' = messages \o pushed(chat.user_message, assistant_message,
                                             chat.response)
           /\ memories' = Append(memories, Mem(<<"m">>, chat.message, <<>>, <<>>))
           /\ call' = [op |-> "chat",
                       message |-> chat.message,
                       model_arg |-> chat.model_arg,
                       default_model |-> chat.default_model,
                       api_keys |-> chat.api_keys,
                       provider |-> chat.provider,
                       requests |-> chat.requests,
                       response |-> chat.response,
                       before |-> messages]
    /\ chat' = Idle
    /\ UNCHANGED <<session_vars, mirror_vars, network, procs, settings, disk, stored, saves, chats, now>>

\* The assistant's ChatMessage with the current time, the pushes under the
\* messages lock, and the return of the response.
ChatCommit ==
    /\ chat.pc = "commit"
    /\ LET assistant_message == [role |-> RoleAssistant,
                                 content |-> chat.response.text,
                                 timestamp |-> now]
       IN  /\ messages' = messages \o pushed(chat.user_message, assistant_message,
                                             chat.response)
           /\ call' = [op |-> "chat",
                       message |-> chat.message,
                       model_arg |-> chat.model_arg,
                       default_model |-> chat.default_model,
                       api_keys |-> chat.api_keys,
                       provider |-> chat.provider,
                       requests |-> chat.requests,
                       response |-> chat.response,
                       before |-> messages]
    /\ chat' = Idle
    /\ UNCHANGED <<session_vars, mirror_vars, network, procs, settings, memories, disk, stored, saves, chats, now>>

(***************************************************************************)
(* Chat: the specification                                                 *)
(***************************************************************************)

MaxChats == 1
MaxClock == 1

ApiKey == <<"s","k">>

NoKeys == [p \in Providers |-> <<>>]
AllKeys == [p \in Providers |-> ApiKey]

\* No key, every key, every key but Anthropic's, Anthropic's key alone.
KeyChoices ==
    { NoKeys, AllKeys,
      [AllKeys EXCEPT !["anthropic"] = <<>>],
      [NoKeys EXCEPT !["anthropic"] = ApiKey] }

DefaultModels ==
    { <<"c","l","a","u","d","e","-","s","o","n","n","e","t","-","4","-",
        "2","0","2","5","0","5","1","4">>,
      <<"g","p","t","-","4","o">> }

SettingsChoices ==
    { [default_model |-> d, keys |-> k] : d \in DefaultModels, k \in KeyChoices }

ModelOverrides ==
    { None,
      Some(<<"g","e","m","i","n","i","-","p","r","o">>),
      Some(<<"g","r","o","k","-","2">>),
      Some(<<"p","e","r","p","l","e","x","i","t","y","-","s","o","n","a","r">>),
      Some(<<"u","n","k","n","o","w","n","-","m","o","d","e","l">>) }

ChatTexts == { <<"w","h","e","n"," ","i","s"," ","i","t">> }

SystemPrompts == { None, Some(<<"B","e"," ","b","r","i","e","f">>) }

\* The index after startup: empty, or the record titled "Deadline".
ChatIndexes ==
    { <<>>, << Mem(<<"a">>, <<"D","e","a","d","l","i","n","e">>, <<>>, <<>>) >> }

\* The log after startup: empty, or a question and its reply.
ChatLogs ==
    { <<>>,
      << Msg(RoleUser, <<"t","h","e"," ","d","e","a","d","l","i","n","e">>),
         Msg(RoleAssistant, <<"o","k">>) >> }

\* The state after startup: the settings, the index and the log as loaded.
Init ==
    /\ settings \in SettingsChoices
    /\ memories \in ChatIndexes
    /\ messages \in ChatLogs
    /\ disk = <<>>
    /\ stored = <<>>
    /\ saves = 0
    /\ chats = 0
    /\ now = 0
    /\ chat = Idle
    /\ call = NoCall
    /\ session_files = <<>>
    /\ current_session = [some |-> FALSE]
    /\ settings_file = [some |-> FALSE]
    /\ message_files = <<>>
    /\ network = [p \in Providers |-> [kind |-> "transport"]]
    /\ procs = <<>>

\* Time passes.
Tick ==
    /\ now < MaxClock
    /\ now' = now + 1
    /\ UNCHANGED <<session_vars, mirror_vars, network, procs, settings, messages, memories, disk, stored, saves, chats, chat, call>>

Chat ==
    /\ chats < MaxChats
    /\ \E message \in ChatTexts, model \in ModelOverrides,
          system_prompt \in SystemPrompts :
         ChatStart(message, model, system_prompt)

Next ==
    \/ Tick
    \/ Chat
    \/ ChatContext
    \/ ChatDispatch
    \/ ChatRespond
    \/ ChatCommit

Spec == Init /\ [][Next]_vars

(***************************************************************************)
(* Chat: properties                                                        *)
(***************************************************************************)

\* The part of the log the last chat call appended.
Appended == SubSeq(messages, Len(call.before) + 1, Len(messages))

\* C1: every chat call appends the user's message exactly once whatever the
\* provider's outcome, and the assistant's message only if the provider
\* call succeeded; with the resolved provider's key empty the call returns
\* an error and the log grows by the user's message alone.
C1_UserAlwaysAssistantOnSuccess ==
    call.op = "chat" =>
        /\ SubSeq(messages, 1, Len(call.before)) = call.before
        /\ Len(Appended) >= 1
        /\ Appended[1].role = RoleUser
        /\ Appended[1].content = call.message
        /\ call.response.ok =>
              /\ Len(Appended) = 2
              /\ Appended[2].role = RoleAssistant
              /\ Appended[2].content = call.response.text
        /\ ~call.response.ok => Len(Appended) = 1
        /\ call.api_keys[call.provider] = <<>> =>
              /\ ~call.response.ok
              /\ Len(Appended) = 1

\* A chat call on a log that held messages, made without the provider's key.
C1_Witness ==
    /\ call.op = "chat"
    /\ call.before # <<>>
    /\ call.api_keys[call.provider] = <<>>
    /\ ~call.response.ok
    /\ Len(messages) = Len(call.before) + 1

\* The error of each provider's adapter for an empty key.
NotConfiguredText ==
    [anthropic |-> <<"A","n","t","h","r","o","p","i","c"," ","A","P","I"," ",
                     "k","e","y"," ","n","o","t"," ",
                     "c","o","n","f","i","g","u","r","e","d">>,
     openai |-> <<"O","p","e","n","A","I"," ","A","P","I"," ",
                  "k","e","y"," ","n","o","t"," ",
                  "c","o","n","f","i","g","u","r","e","d">>,
     google |-> <<"G","o","o","g","l","e"," ","A","P","I"," ",
                  "k","e","y"," ","n","o","t"," ",
                  "c","o","n","f","i","g","u","r","e","d">>,
     xai |-> <<"x","A","I"," ","A","P","I"," ",
               "k","e","y"," ","n","o","t"," ",
               "c","o","n","f","i","g","u","r","e","d">>,
     perplexity |-> <<"P","e","r","p","l","e","x","i","t","y"," ","A","P","I"," ",
                      "k","e","y"," ","n","o","t"," ",
                      "c","o","n","f","i","g","u","r","e","d">>]

\* C3: for each of the five providers, a chat call whose resolved provider
\* has an empty key fails with that provider's "not configured" error and
\* sends no request, neither before the error nor after it.
C3_NotConfiguredNoRequest ==
    /\ (chat.pc \in {"await", "commit"} /\ chat.api_keys[chat.provider] = <<>>) =>
          /\ chat.pc = "commit"
          /\ chat.requests = <<>>
          /\ chat.response = Err(NotConfiguredText[chat.provider])
    /\ (call.op = "chat" /\ call.api_keys[call.provider] = <<>>) =>
          /\ call.requests = <<>>
          /\ call.response = Err(NotConfiguredText[call.provider])

\* A chat call routed to Perplexity by its model argument, made with
\* Anthropic's key alone.
C3_Witness ==
    /\ call.op = "chat"
    /\ call.provider = "perplexity"
    /\ call.api_keys["perplexity"] = <<>>
    /\ call.api_keys["anthropic"] # <<>>
    /\ call.response = Err(NotConfiguredText["perplexity"])
    /\ call.requests = <<>>

\* The provider of the effective model: the model argument, else the
\* stored default.
EffectiveProvider(model_arg) ==
    get_model_provider(IF model_arg.some THEN model_arg.value
                       ELSE settings.default_model)

\* C4: a chat call sends at most one provider request, and only to the
\* provider resolved from the effective model (the model argument, else the
\* stored default); after a failure it neither retries nor turns to another
\* provider.
C4_OneRequestToResolvedProvider ==
    /\ chat.pc # "idle" =>
          /\ Len(chat.requests) <= 1
          /\ \A i \in 1..Len(chat.requests) :
                chat.requests[i].host = ProviderHost[EffectiveProvider(chat.model_arg)]
    /\ call.op = "chat" =>
          /\ Len(call.requests) <= 1
          /\ \A i \in 1..Len(call.requests) :
                call.requests[i].host = ProviderHost[EffectiveProvider(call.model_arg)]

\* A chat call without a model argument whose one request, to the provider
\* of the stored default gpt-4o, failed.
C4_Witness ==
    /\ call.op = "chat"
    /\ ~call.model_arg.some
    /\ call.provider = "openai"
    /\ ~call.response.ok
    /\ Len(call.requests) = 1
    /\ call.requests[1].host = ProviderHost["openai"]

(***************************************************************************)
(* Sessions (session.rs): one <id>.json per session and the file           *)
(* current_session, which holds a copy of the current session              *)
(***************************************************************************)

\* The file operations of session.rs that an operation can find failing:
\* create_dir_all, read_to_string, the write of a session file, the write
\* of current_session, and remove_file.
FsFailures == {"none", "dir", "read", "write_session", "write_current", "remove"}

IoError == <<"P","e","r","m","i","s","s","i","o","n"," ","d","e","n","i","e","d">>

SessionNotFound ==
    <<"S","e","s","s","i","o","n"," ","n","o","t"," ","f","o","u","n","d">>

CannotDeleteCurrent ==
    <<"C","a","n","n","o","t"," ","d","e","l","e","t","e"," ",
      "c","u","r","r","e","n","t"," ","s","e","s","s","i","o","n">>

DefaultName == <<"D","e","f","a","u","l","t">>

\* format!("session-{}", now)
SessionId(t) == <<"s","e","s","s","i","o","n","-">> \o FormatInt(t)

\* What a session operation returns, with the files it leaves behind.
SessionOk(value, files, current) ==
    [ok |-> TRUE, value |-> value, files |-> files, current |-> current]

SessionErr(text, files, current) ==
    [ok |-> FALSE, text |-> text, files |-> files, current |-> current]

\* ensure_sessions_dir fails only where the directory is yet to be made:
\* nothing has been written into it.
DirFails(files, current, fail) ==
    fail = "dir" /\ files = <<>> /\ ~current.some

create_new_session_pointer_only(files, current, name, t, fail) ==
    LET session == [id |-> SessionId(t), name |-> name, created_at |-> t,
                    last_active |-> t, message_count |-> 0]
    IN  IF DirFails(files, current, fail) \/ fail = "write_current"
        THEN SessionErr(IoError, files, current)
        ELSE SessionOk(session, files, Some(session))

\* create_new_session: the session named after the clock, written to its
\* own file and then to current_session.
create_new_session(files, current, name, t, fail) ==
    LET session == [id |-> SessionId(t), name |-> name, created_at |-> t,
                    last_active |-> t, message_count |-> 0]
        written == WriteFile(files, session.id, session)
    IN  IF DirFails(files, current, fail) \/ fail = "write_session"
        THEN SessionErr(IoError, files, current)
        ELSE IF fail = "write_current"
        THEN SessionErr(IoError, written, current)
        ELSE SessionOk(session, written, Some(session))

\* get_current_session: the session in current_session, or a new session
\* "Default" if that file does not exist.
get_current_session(files, current, t, fail) ==
    IF DirFails(files, current, fail)
    THEN SessionErr(IoError, files, current)
    ELSE IF current.some
    THEN IF fail = "read"
         THEN SessionErr(IoError, files, current)
         ELSE SessionOk(current.value, files, current)
    ELSE create_new_session(files, current, DefaultName, t, fail)

switch_session_pointer_kept(files, current, session_id, fail) ==
    IF session_id \notin DOMAIN files
    THEN SessionErr(SessionNotFound, files, current)
    ELSE SessionOk(files[session_id], files, current)

\* switch_session: the content of the session's file copied to
\* current_session.
switch_session(files, current, session_id, fail) ==
    IF DirFails(files, current, fail)
    THEN SessionErr(IoError, files, current)
    ELSE IF session_id \notin DOMAIN files
    THEN SessionErr(SessionNotFound, files, current)
    ELSE IF fail \in {"read", "write_current"}
    THEN SessionErr(IoError, files, current)
    ELSE SessionOk(files[session_id], files, Some(files[session_id]))

delete_session_unguarded(files, current, session_id, t, fail) ==
    IF session_id \notin DOMAIN files
    THEN SessionErr(SessionNotFound, files, current)
    ELSE IF fail = "remove"
    THEN SessionErr(IoError, files, current)
    ELSE SessionOk(<<>>, RemoveFile(files, session_id), current)

\* delete_session: refused for a session without a file and for the session
\* get_current_session returns, else the session's file is removed.
delete_session(files, current, session_id, t, fail) ==
    IF DirFails(files, current, fail)
    THEN SessionErr(IoError, files, current)
    ELSE IF session_id \notin DOMAIN files
    THEN SessionErr(SessionNotFound, files, current)
    ELSE LET got == get_current_session(files, current, t, fail)
         IN  IF ~got.ok
             THEN got
             ELSE IF got.value.id = session_id
             THEN SessionErr(CannotDeleteCurrent, got.files, got.current)
             ELSE IF fail = "remove"
             THEN SessionErr(IoError, got.files, got.current)
             ELSE SessionOk(<<>>, RemoveFile(got.files, session_id), got.current)

\* rename_session: the session's file rewritten with the new name, and
\* current_session too if get_current_session returns that session.
rename_session(files, current, session_id, new_name, t, fail) ==
    IF DirFails(files, current, fail)
    THEN SessionErr(IoError, files, current)
    ELSE IF session_id \notin DOMAIN files
    THEN SessionErr(SessionNotFound, files, current)
    ELSE IF fail \in {"read", "write_session"}
    THEN SessionErr(IoError, files, current)
    ELSE LET session == [files[session_id] EXCEPT !.name = new_name]
             written == WriteFile(files, session_id, session)
             got == get_current_session(written, current, t, fail)
         IN  IF got.ok /\ got.value.id = session_id
             THEN IF fail = "write_current"
                  THEN SessionErr(IoError, got.files, got.current)
                  ELSE SessionOk(session, got.files, Some(session))
             ELSE SessionOk(session, got.files, got.current)

(***************************************************************************)
(* SpecSession: the session commands called one after another              *)
(***************************************************************************)

SessionNames == { <<"A">>, <<"B">> }

NewNames == { <<"Z">> }

\* The ids a session can have got, and so the ids worth asking for.
SessionIds == { SessionId(t) : t \in 0..MaxClock }

InitSession == InitIdle

\* The return of a session command, with the files as the command found
\* them.
SessionCall(op, arg, result) ==
    [op |-> op, arg |-> arg, ok |-> result.ok,
     ret |-> IF result.ok THEN result.value ELSE result.text,
     files_before |-> session_files, current_before |-> current_session]

SessionStep(op, arg, result) ==
    /\ session_files' = result.files
    /\ current_session' = result.current
    /\ call' = SessionCall(op, arg, result)
    /\ UNCHANGED <<mirror_vars, network, procs, settings, messages, memories, disk, stored, saves,
                   chats, now, chat>>

GetCurrentSession ==
    \E fail \in FsFailures :
        SessionStep("get_current_session", <<>>,
                    get_current_session(session_files, current_session, now, fail))

CreateNewSession ==
    \E name \in SessionNames, fail \in FsFailures :
        SessionStep("create_new_session", name,
                    create_new_session(session_files, current_session, name, now, fail))

SwitchSession ==
    \E session_id \in SessionIds, fail \in FsFailures :
        SessionStep("switch_session", session_id,
                    switch_session(session_files, current_session, session_id, fail))

DeleteSession ==
    \E session_id \in SessionIds, fail \in FsFailures :
        SessionStep("delete_session", session_id,
                    delete_session(session_files, current_session, session_id, now, fail))

RenameSession ==
    \E session_id \in SessionIds, new_name \in NewNames, fail \in FsFailures :
        SessionStep("rename_session", session_id,
                    rename_session(session_files, current_session, session_id,
                                   new_name, now, fail))

NextSession ==
    \/ Tick
    \/ GetCurrentSession
    \/ CreateNewSession
    \/ SwitchSession
    \/ DeleteSession
    \/ RenameSession

SpecSession == InitSession /\ [][NextSession]_vars

\* C11: a successful create_new_session or switch_session makes its session
\* the one get_current_session returns (after create "A" then create "B",
\* session "B"), and it stays so until the next create or switch:
\* get_current_session with the pointer in place returns the pointer's
\* session and changes nothing, a failed create or switch leaves the pointer
\* alone, and rename_session and delete_session keep the pointer's id.
C11_CurrentIsLastSelected ==
    /\ (call.op \in {"create_new_session", "switch_session"} /\ call.ok) =>
          /\ current_session = Some(call.ret)
          /\ get_current_session(session_files, current_session, now, "none").ok
          /\ get_current_session(session_files, current_session, now, "none").value
                = call.ret
          /\ call.op = "create_new_session" => call.ret.name = call.arg
          /\ call.op = "switch_session" => call.ret.id = call.arg
    /\ (call.op \in {"create_new_session", "switch_session"} /\ ~call.ok
           /\ call.current_before.some) =>
          current_session = call.current_before
    /\ (call.op = "get_current_session" /\ call.ok /\ call.current_before.some) =>
          /\ call.ret = call.current_before.value
          /\ current_session = call.current_before
    /\ (call.op \in {"rename_session", "delete_session"}
           /\ call.current_before.some) =>
          /\ current_session.some
          /\ current_session.value.id = call.current_before.value.id

\* get_current_session returns session "B" while session "A" has a file.
C11_Witness ==
    /\ call.op = "get_current_session"
    /\ call.ok
    /\ call.ret.name = <<"B">>
    /\ \E id \in DOMAIN session_files :
          /\ session_files[id].name = <<"A">>
          /\ id # call.ret.id

\* C12: delete_session with the id of the current session returns an error
\* and leaves every session file and the current-session pointer as they
\* were.
C12_DeleteCurrentRefused ==
    (call.op = "delete_session" /\ call.current_before.some
        /\ call.arg = call.current_before.value.id) =>
        /\ ~call.ok
        /\ session_files = call.files_before
        /\ current_session = call.current_before

\* delete_session refused for the current session while another session
\* has a file.
C12_Witness ==
    /\ call.op = "delete_session"
    /\ call.current_before.some
    /\ call.arg = call.current_before.value.id
    /\ call.ret = CannotDeleteCurrent
    /\ Cardinality(DOMAIN session_files) >= 2

\* C13: the session in the current-session pointer always has a session
\* file; and get_current_session called without a pointer makes a session
\* "Default", with its file, that becomes current.
C13_CurrentHasFile ==
    /\ current_session.some => current_session.value.id \in DOMAIN session_files
    /\ (call.op = "get_current_session" /\ call.ok /\ ~call.current_before.some) =>
          /\ call.ret.name = DefaultName
          /\ current_session = Some(call.ret)
          /\ call.ret.id \in DOMAIN session_files
          /\ session_files[call.ret.id] = call.ret

\* A session deleted while the session "Default" that get_current_session
\* made is current.
C13_Witness ==
    /\ call.op = "delete_session"
    /\ call.ok
    /\ current_session.some
    /\ current_session.value.name = DefaultName
    /\ call.arg \notin DOMAIN session_files

(***************************************************************************)
(* Model listing (ai.rs): get_models and the five fetch functions          *)
(***************************************************************************)

\* The providers in the order get_models asks them.
ProviderOrder == <<"anthropic", "openai", "google", "xai", "perplexity">>

ModelInfo(id, name, provider) == [id |-> id, name |-> name, provider |-> provider]

\* One entry of a listing: the string fields the fetch functions look at,
\* each present or not.
JsonModel(id, display_name, human_name, name) ==
    [id |-> id, display_name |-> display_name, human_name |-> human_name,
     name |-> name]

\* str::replace
RECURSIVE Replace(_, _, _)
Replace(s, from, to) ==
    LET i == Find(s, from, 1)
    IN  IF from = <<>> \/ i = 0 THEN s
        ELSE SubSeq(s, 1, i - 1) \o to
             \o Replace(SubSeq(s, i + Len(from), Len(s)), from, to)

\* The models a fetch function pushes for the entries of a listing.
Pushed(data, Push(_)) ==
    Concat([i \in 1..Len(data) |-> Push(data[i])])

HttpError ==
    Err(<<"H","T","T","P"," ","e","r","r","o","r",":"," ","5","0","0"," ",
          "I","n","t","e","r","n","a","l"," ","S","e","r","v","e","r"," ",
          "E","r","r","o","r">>)

\* The error of a request that did not come back with a JSON body, none for
\* one that did.
ReplyError(reply) ==
    IF reply.kind = "transport"
    THEN Some(Err(<<"e","r","r","o","r"," ","s","e","n","d","i","n","g"," ",
                    "r","e","q","u","e","s","t">>))
    ELSE IF reply.kind = "status" THEN Some(HttpError)
    ELSE IF reply.kind = "body"
    THEN Some(Err(<<"e","x","p","e","c","t","e","d"," ","v","a","l","u","e"," ",
                    "a","t"," ","l","i","n","e"," ","1"," ",
                    "c","o","l","u","m","n"," ","1">>))
    ELSE None

Fetched(models) == [ok |-> TRUE, models |-> models]

CheckYourKey(label) ==
    Err(<<"F","a","i","l","e","d"," ","t","o"," ","f","e","t","c","h"," ">>
        \o label
        \o <<" ","m","o","d","e","l","s"," ","-"," ","p","l","e","a","s","e"," ",
             "c","h","e","c","k"," ","y","o","u","r"," ","A","P","I"," ","k","e","y">>)

\* The end of the fetch functions that refuse an empty list.
NonEmpty(models, label) ==
    IF models = <<>> THEN CheckYourKey(label) ELSE Fetched(models)

fetch_anthropic_models(reply) ==
    LET Push(m) ==
          IF ~(m.id.some /\ m.display_name.some) THEN <<>>
          ELSE IF /\ ~Contains(m.id.value, <<"c","l","a","u","d","e","-">>)
                  /\ ~Contains(m.id.value, <<"s","o","n","n","e","t">>)
                  /\ ~Contains(m.id.value, <<"h","a","i","k","u">>)
                  /\ ~Contains(m.id.value, <<"o","p","u","s">>)
               THEN <<>>
          ELSE <<ModelInfo(m.id.value, m.display_name.value, ProviderLabel["anthropic"])>>
    IN  IF ReplyError(reply).some THEN ReplyError(reply).value
        ELSE NonEmpty(Pushed(reply.data, Push), ProviderLabel["anthropic"])

\* The sort key of fetch_openai_models.
priority(id) ==
    IF Contains(id, <<"4","o">>) THEN 0
    ELSE IF Contains(id, <<"o","1">>) THEN 1
    ELSE IF Contains(id, <<"o","3">>) THEN 2
    ELSE IF Contains(id, <<"4">>) THEN 3
    ELSE 4

\* models.sort_by(priority): a stable sort, lowest key first.
RECURSIVE SortByPriority(_)
SortByPriority(s) ==
    IF s = <<>> THEN <<>>
    ELSE LET front == SortByPriority(SubSeq(s, 1, Len(s) - 1))
             x == s[Len(s)]
             k == Cardinality({ i \in 1..Len(front) :
                                    priority(front[i].id) <= priority(x.id) })
         IN  SubSeq(front, 1, k) \o <<x>> \o SubSeq(front, k + 1, Len(front))

filter_models ==
    << <<"g","p","t","-","4","o">>, <<"g","p","t","-","4">>,
       <<"g","p","t","-","3",".","5">>, <<"o","1">>, <<"o","3">>, <<"o","4">> >>

\* fetch_openai_models returns its list even when it is empty.
fetch_openai_models(reply) ==
    LET Push(m) ==
          IF ~m.id.some THEN <<>>
          ELSE IF ~\E i \in 1..Len(filter_models) : Contains(m.id.value, filter_models[i])
               THEN <<>>
          ELSE <<ModelInfo(m.id.value,
                           IF m.human_name.some THEN m.human_name.value ELSE m.id.value,
                           ProviderLabel["openai"])>>
    IN  IF ReplyError(reply).some THEN ReplyError(reply).value
        ELSE Fetched(SortByPriority(Pushed(reply.data, Push)))

fetch_google_models(reply) ==
    LET Push(m) ==
          IF ~m.name.some THEN <<>>
          ELSE IF ~Contains(m.name.value, <<"g","e","m","i","n","i">>) THEN <<>>
          ELSE LET model_id == Replace(m.name.value, <<"m","o","d","e","l","s","/">>, <<>>)
               IN  <<ModelInfo(model_id, Replace(model_id, <<"-">>, <<" ">>),
                               ProviderLabel["google"])>>
    IN  IF ReplyError(reply).some THEN ReplyError(reply).value
        ELSE NonEmpty(Pushed(reply.data, Push), ProviderLabel["google"])

fetch_xai_models(reply) ==
    LET Push(m) ==
          IF ~m.id.some THEN <<>>
          ELSE <<ModelInfo(m.id.value,
                           IF m.human_name.some THEN m.human_name.value ELSE m.id.value,
                           ProviderLabel["xai"])>>
    IN  IF ReplyError(reply).some THEN ReplyError(reply).value
        ELSE NonEmpty(Pushed(reply.data, Push), ProviderLabel["xai"])

fetch_perplexity_models(reply) ==
    LET Push(m) ==
          IF ~(m.id.some /\ m.name.some) THEN <<>>
          ELSE <<ModelInfo(m.id.value, m.name.value, ProviderLabel["perplexity"])>>
    IN  IF ReplyError(reply).some THEN ReplyError(reply).value
        ELSE NonEmpty(Pushed(reply.data, Push), ProviderLabel["perplexity"])

fetch_models(p, reply) ==
    CASE p = "anthropic" -> fetch_anthropic_models(reply)
      [] p = "openai" -> fetch_openai_models(reply)
      [] p = "google" -> fetch_google_models(reply)
      [] p = "xai" -> fetch_xai_models(reply)
      [] p = "perplexity" -> fetch_perplexity_models(reply)

\* The list get_models returns when it has fetched nothing.
PlaceholderCatalog ==
    << ModelInfo(<<"c","l","a","u","d","e","-","s","o","n","n","e","t","-","4","-",
                   "2","0","2","5","0","5","1","4">>,
                 <<"C","l","a","u","d","e"," ","S","o","n","n","e","t"," ","4"," ",
                   "(","U+8BF7","U+5148","U+914D","U+7F6E","A","P","I"," ",
                   "K","e","y",")">>,
                 ProviderLabel["anthropic"]),
       ModelInfo(<<"g","p","t","-","4","o">>,
                 <<"G","P","T","-","4","o"," ","(","U+8BF7","U+5148","U+914D",
                   "U+7F6E","A","P","I"," ","K","e","y",")">>,
                 ProviderLabel["openai"]) >>

\* A listing no fetch function but xAI's and OpenAI's accepts an entry of.
JunkListing == << JsonModel(Some(<<"d","a","l","l","-","e">>), None, None, None) >>

\* A listing with something for every fetch function.
FullListing ==
    << JsonModel(Some(<<"c","l","a","u","d","e","-","3","-","o","p","u","s">>),
                 Some(<<"C","l","a","u","d","e"," ","3"," ","O","p","u","s">>),
                 None, None),
       JsonModel(Some(<<"g","p","t","-","4">>), None, None, None),
       JsonModel(Some(<<"g","p","t","-","4","o">>), None,
                 Some(<<"G","P","T","-","4","o">>), None),
       JsonModel(None, None, None,
                 Some(<<"m","o","d","e","l","s","/","g","e","m","i","n","i","-","p","r","o">>)),
       JsonModel(Some(<<"s","o","n","a","r">>), None, None,
                 Some(<<"S","o","n","a","r">>)) >>

\* What a listing request can come to: the send fails, the status is not
\* 2xx, the body is no JSON, or a listing.
Replies ==
    { [kind |-> "transport"], [kind |-> "status"], [kind |-> "body"],
      [kind |-> "json", data |-> JunkListing],
      [kind |-> "json", data |-> FullListing] }

\* What get_models does for the providers from the i-th on: for each one
\* with a key, the request and what the fetch function made of the reply.
RECURSIVE FetchFrom(_, _, _)
FetchFrom(i, api_keys, replies) ==
    IF i > Len(ProviderOrder) THEN <<>>
    ELSE LET p == ProviderOrder[i]
         IN  IF api_keys[p] = <<>> THEN FetchFrom(i + 1, api_keys, replies)
             ELSE <<[provider |-> p,
                     request |-> [host |-> ProviderHost[p], key |-> api_keys[p]],
                     result |-> fetch_models(p, replies[p])]>>
                  \o FetchFrom(i + 1, api_keys, replies)

\* models.extend(m) for every Ok(m)
Extended(fetched) ==
    Concat([k \in 1..Len(fetched) |->
              IF fetched[k].result.ok THEN fetched[k].result.models ELSE <<>>])

get_models_stop_at_failure(api_keys, replies) ==
    LET all == FetchFrom(1, api_keys, replies)
        bad == { k \in 1..Len(all) : ~all[k].result.ok }
        fetched == IF bad = {} THEN all
                   ELSE SubSeq(all, 1, CHOOSE k \in bad : \A j \in bad : k <= j)
        models == Extended(fetched)
    IN  [ok |-> TRUE, fetched |-> fetched,
         ret |-> IF models = <<>> THEN PlaceholderCatalog ELSE models]

get_models_asks_everyone(api_keys, replies) ==
    LET fetched == FetchFrom(1, [p \in Providers |-> <<"?">>], replies)
        models == Extended(fetched)
    IN  [ok |-> TRUE, fetched |-> fetched,
         ret |-> IF models = <<>> THEN PlaceholderCatalog ELSE models]

\* get_models: every provider with a key is asked in turn, a failure is
\* printed and passed over, and an empty result becomes the placeholder
\* list.
get_models(api_keys, replies) ==
    LET fetched == FetchFrom(1, api_keys, replies)
        models == Extended(fetched)
    IN  [ok |-> TRUE, fetched |-> fetched,
         ret |-> IF models = <<>> THEN PlaceholderCatalog ELSE models]

(***************************************************************************)
(* SpecModels: get_models under every combination of answers               *)
(***************************************************************************)

\* The state after startup, with the settings as loaded.
InitModels ==
    /\ settings \in SettingsChoices
    /\ messages = <<>>
    /\ memories = <<>>
    /\ disk = <<>>
    /\ stored = <<>>
    /\ saves = 0
    /\ chats = 0
    /\ now = 0
    /\ chat = Idle
    /\ call = NoCall
    /\ session_files = <<>>
    /\ current_session = [some |-> FALSE]
    /\ settings_file = [some |-> FALSE]
    /\ message_files = <<>>
    /\ network \in [Providers -> Replies]
    /\ procs = <<>>

GetModels ==
    /\ LET r == get_models(settings.keys, network)
       IN  call' = [op |-> "get_models", api_keys |-> settings.keys, ok |-> r.ok,
                    fetched |-> r.fetched, ret |-> r.ret]
    /\ UNCHANGED <<session_vars, mirror_vars, network, procs, settings, messages, memories, disk, stored, saves, chats, now, chat>>

NextModels == GetModels

SpecModels == InitModels /\ [][NextModels]_vars

\* The providers a get_models call asked, in order.
Asked(c) == [k \in 1..Len(c.fetched) |-> c.fetched[k].provider]

\* C14: get_models never fails because of provider errors: every provider
\* with a key is asked whatever became of the ones before it, the models of
\* every fetch that succeeded are in the result, and if every fetch failed
\* the result is the two-entry placeholder list.
C14_FailuresSkipped ==
    call.op = "get_models" =>
        /\ call.ok
        /\ \A p \in Providers :
              call.api_keys[p] # <<>> => \E k \in 1..Len(call.fetched) : Asked(call)[k] = p
        /\ \A k \in 1..Len(call.fetched) :
              call.fetched[k].result.ok =>
                  \A i \in 1..Len(call.fetched[k].result.models) :
                      call.fetched[k].result.models[i] \in Range(call.ret)
        /\ (\A k \in 1..Len(call.fetched) : ~call.fetched[k].result.ok) =>
              call.ret = PlaceholderCatalog

\* A call in which Anthropic's listing failed and a later provider's models
\* were returned.
C14_Witness ==
    /\ call.op = "get_models"
    /\ Len(call.fetched) >= 2
    /\ call.fetched[1].provider = "anthropic"
    /\ ~call.fetched[1].result.ok
    /\ \E k \in 2..Len(call.fetched) :
          /\ call.fetched[k].result.ok
          /\ call.fetched[k].result.models # <<>>
          /\ call.fetched[k].result.models[1] \in Range(call.ret)

\* C15: with all five keys empty get_models sends no request and returns
\* exactly two entries: claude-sonnet-4-20250514 of Anthropic and gpt-4o of
\* OpenAI.
C15_PlaceholderWithoutKeys ==
    (call.op = "get_models" /\ \A p \in Providers : call.api_keys[p] = <<>>) =>
        /\ call.ok
        /\ call.fetched = <<>>
        /\ Len(call.ret) = 2
        /\ call.ret[1].id = <<"c","l","a","u","d","e","-","s","o","n","n","e","t","-",
                               "4","-","2","0","2","5","0","5","1","4">>
        /\ call.ret[1].provider = <<"A","n","t","h","r","o","p","i","c">>
        /\ call.ret[2].id = <<"g","p","t","-","4","o">>
        /\ call.ret[2].provider = <<"O","p","e","n","A","I">>

\* get_models called with no key set.
C15_Witness ==
    /\ call.op = "get_models"
    /\ \A p \in Providers : call.api_keys[p] = <<>>
    /\ call.ret = PlaceholderCatalog

\* The partitions in the order the claim gives them.
PartitionOrder == <<"WORK", "LEARNING", "RELATIONSHIP", "general">>

\* The partitions that hold a file for an id.
Holding(d, id) ==
    { i \in 1..Len(PartitionOrder) : MemoryPath(PartitionOrder[i], id) \in DOMAIN d }

\* C16: delete_memory(id) removes the file of the first partition, in the
\* order WORK, LEARNING, RELATIONSHIP, general, that holds one for the id,
\* and no other file, and then takes every record with that id out of the
\* index; with no such file on disk it still succeeds and still clears the
\* id from the index.
C16_DeleteStep ==
    call'.op = "delete_memory" =>
        LET id == call'.memory_id
            hits == Holding(disk, id)
            first == CHOOSE i \in hits : \A j \in hits : i <= j
            Other(m) == m.id # id
        IN  /\ hits = {} => call'.ok /\ disk' = disk
            /\ (call'.ok /\ hits # {}) =>
                  /\ DOMAIN disk' = DOMAIN disk \ {MemoryPath(PartitionOrder[first], id)}
                  /\ \A q \in DOMAIN disk' : disk'[q] = disk[q]
            /\ call'.ok =>
                  /\ memories' = SelectSeq(memories, Other)
                  /\ \A k \in 1..Len(memories') : memories'[k].id # id

C16_FirstMatchOnly == [][C16_DeleteStep]_vars

\* A delete that removed one file of an id and left the file a later
\* partition holds for the same id.
C16_Witness ==
    /\ call.op = "delete_memory"
    /\ call.ok
    /\ call.removed = 1
    /\ Holding(disk, call.memory_id) # {}
    /\ \A k \in 1..Len(memories) : memories[k].id # call.memory_id

(***************************************************************************)
(* SpecStore: the memory commands on an index that was loaded at startup   *)
(***************************************************************************)

\* The state after startup: main has put load_memories_from_disk_sync's
\* list into the index.
InitStore ==
    /\ \E files \in InitialStores :
         /\ disk = StoreOf(files)
         /\ memories \in ScanResults(StoreOf(files))
    /\ stored = <<>>
    /\ saves = 0
    /\ chats = 0
    /\ settings = [default_model |-> <<>>, keys |-> [p \in Providers |-> <<>>]]
    /\ messages = <<>>
    /\ now = 0
    /\ chat = [pc |-> "idle"]
    /\ call = NoCall
    /\ session_files = <<>>
    /\ current_session = [some |-> FALSE]
    /\ settings_file = [some |-> FALSE]
    /\ message_files = <<>>
    /\ network = [p \in Providers |-> [kind |-> "transport"]]
    /\ procs = <<>>

NextStore == SaveMemory \/ LoadMemories \/ DeleteMemory

SpecStore == InitStore /\ [][NextStore]_vars

\* C19: the index holds exactly the records a reload from disk would
\* return, and no id twice.
C19_IndexInSync ==
    /\ \E all_memories \in ScanResults(disk) :
          /\ Len(all_memories) = Len(memories)
          /\ Range(all_memories) = Range(memories)
    /\ \A i, j \in 1..Len(memories) : memories[i].id = memories[j].id => i = j

(***************************************************************************)
(* Commands side by side.  chat and get_models are async commands and run  *)
(* on the runtime's threads; the other commands are plain functions and    *)
(* run one at a time.  Each command is cut where it takes a lock, touches  *)
(* a file or awaits the network.                                           *)
(***************************************************************************)

\* The mutexes of AppState.
Locks == {"settings", "messages", "memories"}

\* Mutex::lock returns once no other command holds the lock.
Free(l) == \A i \in DOMAIN procs : l \notin procs[i].held

\* A command that has returned.
Returned(op) == [op |-> op, pc |-> "done", held |-> {}]

\* The commands that are plain functions.
SyncOps == {"add_message", "save_settings", "save_memory", "delete_memory"}

\* No plain command is running: the next one can start.
MainThreadIdle ==
    \A i \in DOMAIN procs : procs[i].op \in SyncOps => procs[i].pc = "done"

settings_guard_kept(held) == held

\* The settings guard lives in a block of its own and is dropped where the
\* block ends.
settings_guard_dropped(held) ==
    held \ {"settings"}

\* chat is called: nothing has run yet.
ChatInvoked(message) ==
    /\ procs' = Append(procs, [op |-> "chat", pc |-> "copy", held |-> {},
                               message |-> message, api_keys |-> NoKeys,
                               model |-> <<>>, user_message |-> None,
                               response |-> None, assistant_message |-> None])
    /\ UNCHANGED <<session_vars, mirror_vars, network, settings, messages, memories, disk,
                   stored, saves, chats, now, chat, call>>

\* chat, the block under the settings lock: the default model and the keys
\* are copied.
ChatCopiesSettings(i) ==
    /\ procs[i].op = "chat" /\ procs[i].pc = "copy"
    /\ Free("settings")
    /\ procs' = [procs EXCEPT ![i] =
                   [@ EXCEPT !.pc = "lock_messages",
                             !.held = settings_guard_dropped(@ \cup {"settings"}),
                             !.api_keys = settings.keys,
                             !.model = settings.default_model]]
    /\ UNCHANGED <<session_vars, mirror_vars, network, settings, messages, memories, disk,
                   stored, saves, chats, now, chat, call>>

build_context_locks_memories_first == <<"memories", "messages">>

\* The locks build_context takes, in the order it takes them.
build_context_locks ==
    <<"messages", "memories">>

\* build_context takes its first lock.
ChatLocksMessages(i) ==
    /\ procs[i].op = "chat" /\ procs[i].pc = "lock_messages"
    /\ Free(build_context_locks[1])
    /\ procs' = [procs EXCEPT ![i] =
                   [@ EXCEPT !.pc = "lock_memories",
                             !.held = @ \cup {build_context_locks[1]}]]
    /\ UNCHANGED <<session_vars, mirror_vars, network, settings, messages, memories, disk,
                   stored, saves, chats, now, chat, call>>

\* build_context takes its second lock, still holding the first.
ChatLocksMemories(i) ==
    /\ procs[i].op = "chat" /\ procs[i].pc = "lock_memories"
    /\ Free(build_context_locks[2])
    /\ procs' = [procs EXCEPT ![i] =
                   [@ EXCEPT !.pc = "build",
                             !.held = @ \cup {build_context_locks[2]}]]
    /\ UNCHANGED <<session_vars, mirror_vars, network, settings, messages, memories, disk,
                   stored, saves, chats, now, chat, call>>

\* build_context builds the context and returns, dropping both guards;
\* chat stamps the user's message and calls the adapter, which sends its
\* request or, without a key, returns its error.
ChatSends(i) ==
    /\ procs[i].op = "chat" /\ procs[i].pc = "build"
    /\ LET p == adapter(get_model_provider(procs[i].model))
           user_message == [role |-> RoleUser, content |-> procs[i].message,
                            timestamp |-> now]
       IN  procs' = [procs EXCEPT ![i] =
                       IF key_missing(p, procs[i].api_keys)
                       THEN [@ EXCEPT !.pc = "commit",
                                      !.held = @ \ {"messages", "memories"},
                                      !.user_message = Some(user_message),
                                      !.response = NotConfigured(p),
                                      !.assistant_message =
                                          Some([role |-> RoleAssistant,
                                                content |-> NotConfigured(p).text,
                                                timestamp |-> now])]
                       ELSE [@ EXCEPT !.pc = "await",
                                      !.held = @ \ {"messages", "memories"},
                                      !.user_message = Some(user_message)]]
    /\ UNCHANGED <<session_vars, mirror_vars, network, settings, messages, memories, disk,
                   stored, saves, chats, now, chat, call>>

\* The request comes back or fails, and chat stamps the assistant's message.
ChatGetsResponse(i, outcome) ==
    /\ procs[i].op = "chat" /\ procs[i].pc = "await"
    /\ LET p == adapter(get_model_provider(procs[i].model))
           response == Response(p, outcome)
       IN  procs' = [procs EXCEPT ![i] =
                       [@ EXCEPT !.pc = "commit",
                                 !.response = response,
                                 !.assistant_message =
                                     Some([role |-> RoleAssistant,
                                           content |-> response.text,
                                           timestamp |-> now])]]
    /\ UNCHANGED <<session_vars, mirror_vars, network, settings, messages, memories, disk,
                   stored, saves, chats, now, chat, call>>

log_guard_dropped_between(held) == held \ {"messages"}

\* The guard of the messages lock lives until the end of the block: it is
\* held from the first push to the last.
log_guard_kept(held) ==
    held

\* chat, the block after the response: it takes the messages lock.
ChatLocksLog(i) ==
    /\ procs[i].op = "chat" /\ procs[i].pc = "commit"
    /\ Free("messages")
    /\ procs' = [procs EXCEPT ![i] =
                   [@ EXCEPT !.pc = "push_user", !.held = @ \cup {"messages"}]]
    /\ UNCHANGED <<session_vars, mirror_vars, network, settings, messages, memories, disk,
                   stored, saves, chats, now, chat, call>>

\* chat pushes the user's message; after a failed response the block ends
\* here and the error is returned.
ChatPushesUser(i) ==
    /\ procs[i].op = "chat" /\ procs[i].pc = "push_user"
    /\ messages' = Append(messages, procs[i].user_message.value)
    /\ IF procs[i].response.ok
       THEN /\ procs' = [procs EXCEPT ![i] =
                           [@ EXCEPT !.pc = "push_reply",
                                     !.held = log_guard_kept(@)]]
            /\ UNCHANGED call
       ELSE /\ procs' = [procs EXCEPT ![i] = Returned("chat")]
            /\ call' = [op |-> "chat", proc |-> i, response |-> procs[i].response]
    /\ UNCHANGED <<session_vars, mirror_vars, network, settings, memories, disk,
                   stored, saves, chats, now, chat>>

\* chat pushes the assistant's message, the block ends and the response is
\* returned.
ChatPushesReply(i) ==
    /\ procs[i].op = "chat" /\ procs[i].pc = "push_reply"
    /\ messages' = Append(messages, procs[i].assistant_message.value)
    /\ procs' = [procs EXCEPT ![i] = Returned("chat")]
    /\ call' = [op |-> "chat", proc |-> i, response |-> procs[i].response]
    /\ UNCHANGED <<session_vars, mirror_vars, network, settings, memories, disk,
                   stored, saves, chats, now, chat>>

\* get_models is called.
GetModelsInvoked ==
    /\ procs' = Append(procs, [op |-> "get_models", pc |-> "copy", held |-> {},
                               api_keys |-> NoKeys])
    /\ UNCHANGED <<session_vars, mirror_vars, network, settings, messages, memories, disk,
                   stored, saves, chats, now, chat, call>>

\* get_models, the block under the settings lock: the keys are copied.
GetModelsCopiesSettings(i) ==
    /\ procs[i].op = "get_models" /\ procs[i].pc = "copy"
    /\ Free("settings")
    /\ procs' = [procs EXCEPT ![i] =
                   [@ EXCEPT !.pc = IF \E p \in Providers : settings.keys[p] # <<>>
                                    THEN "await" ELSE "return",
                             !.held = settings_guard_dropped(@ \cup {"settings"}),
                             !.api_keys = settings.keys]]
    /\ UNCHANGED <<session_vars, mirror_vars, network, settings, messages, memories, disk,
                   stored, saves, chats, now, chat, call>>

\* get_models: the listings come back, or there was none to ask for, and
\* the catalogue is returned.
GetModelsReturns(i) ==
    /\ procs[i].op = "get_models" /\ procs[i].pc \in {"await", "return"}
    /\ LET r == get_models(procs[i].api_keys, network)
       IN  call' = [op |-> "get_models", proc |-> i, api_keys |-> procs[i].api_keys,
                    ok |-> r.ok, fetched |-> r.fetched, ret |-> r.ret]
    /\ procs' = [procs EXCEPT ![i] = Returned("get_models")]
    /\ UNCHANGED <<session_vars, mirror_vars, network, settings, messages, memories, disk,
                   stored, saves, chats, now, chat>>

\* The file operations of a write-through command that can fail.
WriteFailures == {"none", "dir", "write"}

TryIgnored(fail, next) == next

\* `.map_err(|e| e.to_string())?` on the file operations: a failure
\* returns the error, success goes on to the update of the mirror.
Try(fail, next) ==
    IF fail = "none" THEN next ELSE "failed"

\* serde_json::to_string_pretty: the text of a value.
to_string_pretty(value) == [json |-> value]

\* A plain command is called with its argument; `before` and `files_before`
\* remember the mirror and the files the command is about to update.
Invoked(op, arg, before, files_before) ==
    /\ MainThreadIdle
    /\ procs' = Append(procs, [op |-> op, pc |-> "write", held |-> {},
                               arg |-> arg, before |-> before,
                               files_before |-> files_before])
    /\ UNCHANGED <<session_vars, mirror_vars, network, settings, messages, memories, disk,
                   stored, saves, chats, now, chat, call>>

\* The file step of a plain command has run: on to the mirror, or out with
\* the error.
Wrote(i, fail) ==
    /\ procs' = [procs EXCEPT ![i] =
                   IF Try(fail, "mirror") = "mirror"
                   THEN [@ EXCEPT !.pc = "mirror"]
                   ELSE Returned(@.op)]
    /\ call' = IF Try(fail, "mirror") = "mirror" THEN call
               ELSE [op |-> procs[i].op, proc |-> i, ok |-> FALSE,
                     arg |-> procs[i].arg, before |-> procs[i].before]

\* The mirror step of a plain command has run and the command returns Ok.
Mirrored(i) ==
    /\ procs' = [procs EXCEPT ![i] = Returned(@.op)]
    /\ call' = [op |-> procs[i].op, proc |-> i, ok |-> TRUE,
                arg |-> procs[i].arg, before |-> procs[i].before]

\* add_message is called with a message stamped with the current time.
AddMessageInvoked(content) ==
    Invoked("add_message",
            [role |-> RoleUser, content |-> content, timestamp |-> now], messages,
            message_files)

\* add_message: create_dir_all and the write of <timestamp>.json.
AddMessageWrites(i, fail) ==
    /\ procs[i].op = "add_message" /\ procs[i].pc = "write"
    /\ message_files' = IF fail = "none"
                        THEN WriteFile(message_files, procs[i].arg.timestamp,
                                       to_string_pretty(procs[i].arg))
                        ELSE message_files
    /\ Wrote(i, fail)
    /\ UNCHANGED <<session_vars, settings_file, network, settings, messages, memories,
                   disk, stored, saves, chats, now, chat>>

\* add_message: the push under the messages lock.
AddMessagePushes(i) ==
    /\ procs[i].op = "add_message" /\ procs[i].pc = "mirror"
    /\ Free("messages")
    /\ messages' = Append(messages, procs[i].arg)
    /\ Mirrored(i)
    /\ UNCHANGED <<session_vars, mirror_vars, network, settings, memories, disk,
                   stored, saves, chats, now, chat>>

\* save_settings is called.
SaveSettingsInvoked(new_settings) ==
    Invoked("save_settings", new_settings, settings, settings_file)

\* save_settings: create_dir_all and the write of settings.json.
SaveSettingsWrites(i, fail) ==
    /\ procs[i].op = "save_settings" /\ procs[i].pc = "write"
    /\ settings_file' = IF fail = "none"
                        THEN Some(to_string_pretty(procs[i].arg))
                        ELSE settings_file
    /\ Wrote(i, fail)
    /\ UNCHANGED <<session_vars, message_files, network, settings, messages, memories,
                   disk, stored, saves, chats, now, chat>>

\* save_settings: the assignment under the settings lock.
SaveSettingsAssigns(i) ==
    /\ procs[i].op = "save_settings" /\ procs[i].pc = "mirror"
    /\ Free("settings")
    /\ settings' = procs[i].arg
    /\ Mirrored(i)
    /\ UNCHANGED <<session_vars, mirror_vars, network, messages, memories, disk,
                   stored, saves, chats, now, chat>>

\* save_memory is called.
SaveMemoryInvoked(memory) ==
    Invoked("save_memory", memory, memories, disk)

\* save_memory: ensure_dirs and the write of <id>.md.
SaveMemoryWrites(i, fail) ==
    /\ procs[i].op = "save_memory" /\ procs[i].pc = "write"
    /\ disk' = IF fail = "none"
               THEN WriteFile(disk,
                              MemoryPath(memory_dir(procs[i].arg.memory_type),
                                         procs[i].arg.id),
                              Frontmatter(procs[i].arg))
               ELSE disk
    /\ Wrote(i, fail)
    /\ UNCHANGED <<session_vars, mirror_vars, network, settings, messages, memories,
                   stored, saves, chats, now, chat>>

\* save_memory: the push under the memories lock.
SaveMemoryPushes(i) ==
    /\ procs[i].op = "save_memory" /\ procs[i].pc = "mirror"
    /\ Free("memories")
    /\ memories' = Append(memories, procs[i].arg)
    /\ Mirrored(i)
    /\ UNCHANGED <<session_vars, mirror_vars, network, settings, messages, disk,
                   stored, saves, chats, now, chat>>

\* delete_memory is called.
DeleteMemoryInvoked(memory_id) ==
    Invoked("delete_memory", memory_id, memories, disk)

\* delete_memory: the loop over the four directories.  Only a file that is
\* there is removed, so only then can the step fail.
DeleteMemoryRemoves(i, fail) ==
    /\ procs[i].op = "delete_memory" /\ procs[i].pc = "write"
    /\ LET k == FirstDirWith(disk, procs[i].arg)
       IN  /\ k = 0 => fail = "none"
           /\ fail # "dir"
           /\ disk' = IF k # 0 /\ fail = "none"
                      THEN RemoveFile(disk, MemoryPath(Dirs[k].dir, procs[i].arg))
                      ELSE disk
    /\ Wrote(i, fail)
    /\ UNCHANGED <<session_vars, mirror_vars, network, settings, messages, memories,
                   stored, saves, chats, now, chat>>

\* delete_memory: the retain under the memories lock.
DeleteMemoryRetains(i) ==
    /\ procs[i].op = "delete_memory" /\ procs[i].pc = "mirror"
    /\ Free("memories")
    /\ memories' = RetainOthers(memories, procs[i].arg)
    /\ Mirrored(i)
    /\ UNCHANGED <<session_vars, mirror_vars, network, settings, messages, disk,
                   stored, saves, chats, now, chat>>

(***************************************************************************)
(* SpecRace: chat, get_models and add_message side by side                 *)
(***************************************************************************)

\* The number of commands called in a run.
MaxCommands == 2

\* How a chat request can end: with an error status or with a reply.
RaceOutcomes == {"status", "ok"}

\* The settings of a run: no key at all, or a key for every provider.
RaceSettings ==
    { [default_model |-> <<"g","p","t","-","4","o">>, keys |-> k] :
        k \in {NoKeys, AllKeys} }

InitRace ==
    /\ settings \in RaceSettings
    /\ messages = <<>>
    /\ memories = <<>>
    /\ disk = <<>>
    /\ stored = <<>>
    /\ saves = 0
    /\ chats = 0
    /\ now = 0
    /\ chat = [pc |-> "idle"]
    /\ call = NoCall
    /\ session_files = <<>>
    /\ current_session = [some |-> FALSE]
    /\ settings_file = [some |-> FALSE]
    /\ message_files = <<>>
    /\ network = [p \in Providers |-> [kind |-> "transport"]]
    /\ procs = <<>>

CallChat ==
    /\ Len(procs) < MaxCommands
    /\ \E message \in ChatTexts : ChatInvoked(message)

CallGetModels ==
    /\ Len(procs) < MaxCommands
    /\ GetModelsInvoked

CallAddMessage ==
    /\ Len(procs) < MaxCommands
    /\ \E content \in ChatTexts : AddMessageInvoked(content)

ChatStep ==
    \E i \in DOMAIN procs :
        \/ ChatCopiesSettings(i)
        \/ ChatLocksMessages(i)
        \/ ChatLocksMemories(i)
        \/ ChatSends(i)
        \/ \E outcome \in RaceOutcomes : ChatGetsResponse(i, outcome)
        \/ ChatLocksLog(i)
        \/ ChatPushesUser(i)
        \/ ChatPushesReply(i)

GetModelsStep ==
    \E i \in DOMAIN procs : GetModelsCopiesSettings(i) \/ GetModelsReturns(i)

AddMessageStep ==
    \E i \in DOMAIN procs :
        \/ \E fail \in WriteFailures : AddMessageWrites(i, fail)
        \/ AddMessagePushes(i)

NextRace ==
    \/ Tick
    \/ CallChat
    \/ CallGetModels
    \/ CallAddMessage
    \/ ChatStep
    \/ GetModelsStep
    \/ AddMessageStep

SpecRace == InitRace /\ [][NextRace]_vars

\* C17: after any interleaving of chat calls and of add_message calls
\* stamped with the current time, the timestamps never decrease along the
\* message log.
C17_LogInTimestampOrder ==
    \A i, j \in DOMAIN messages :
        i < j => messages[i].timestamp <= messages[j].timestamp

\* C18: a command that has a provider request in flight holds no lock on
\* settings, messages or memories, and chat, once its request is over, is
\* still to take the messages lock for its pushes.
C18_NoLockAcrossRequest ==
    \A i \in DOMAIN procs :
        /\ procs[i].pc = "await" => procs[i].held = {}
        /\ procs[i].op = "chat" /\ procs[i].pc = "commit" =>
              /\ procs[i].held = {}
              /\ procs[i].user_message.some

\* Two commands have their requests in flight at once, one of them a chat
\* that went through both blocks and build_context.
C18_Witness ==
    /\ Len(procs) >= 2
    /\ procs[1].op = "chat" /\ procs[1].pc = "await"
    /\ procs[1].user_message.some
    /\ procs[2].op = "get_models" /\ procs[2].pc = "await"

(***************************************************************************)
(* SpecWriteThrough: the commands that write a file and then update the    *)
(* mirror in AppState, one after the other, each file step free to fail    *)
(***************************************************************************)

\* The records save_memory is called with: two ids, two partitions.
WriteItems ==
    { BaseItem,
      [BaseItem EXCEPT !.id = <<"b">>, !.memory_type = <<"n","o","t","e">>] }

CallSaveMemory ==
    /\ Len(procs) < MaxCommands
    /\ \E memory \in WriteItems : SaveMemoryInvoked(memory)

CallDeleteMemory ==
    /\ Len(procs) < MaxCommands
    /\ \E memory_id \in DeleteIds : DeleteMemoryInvoked(memory_id)

CallSaveSettings ==
    /\ Len(procs) < MaxCommands
    /\ \E new_settings \in RaceSettings : SaveSettingsInvoked(new_settings)

SaveMemoryStep ==
    \E i \in DOMAIN procs :
        \/ \E fail \in WriteFailures : SaveMemoryWrites(i, fail)
        \/ SaveMemoryPushes(i)

DeleteMemoryStep ==
    \E i \in DOMAIN procs :
        \/ \E fail \in WriteFailures : DeleteMemoryRemoves(i, fail)
        \/ DeleteMemoryRetains(i)

SaveSettingsStep ==
    \E i \in DOMAIN procs :
        \/ \E fail \in WriteFailures : SaveSettingsWrites(i, fail)
        \/ SaveSettingsAssigns(i)

NextWriteThrough ==
    \/ Tick
    \/ CallSaveMemory
    \/ CallDeleteMemory
    \/ CallSaveSettings
    \/ CallAddMessage
    \/ SaveMemoryStep
    \/ DeleteMemoryStep
    \/ SaveSettingsStep
    \/ AddMessageStep

SpecWriteThrough == InitIdle /\ [][NextWriteThrough]_vars

\* The mirror a command updates.
Mirror(op) ==
    CASE op = "add_message" -> messages
      [] op = "save_settings" -> settings
      [] OTHER -> memories

\* The file operation of the command has taken effect.
OnDiskNow(c) ==
    CASE c.op = "add_message" ->
            /\ c.arg.timestamp \in DOMAIN message_files
            /\ message_files[c.arg.timestamp] = to_string_pretty(c.arg)
      [] c.op = "save_settings" -> settings_file = Some(to_string_pretty(c.arg))
      [] c.op = "save_memory" ->
            LET path == MemoryPath(memory_dir(c.arg.memory_type), c.arg.id)
            IN  path \in DOMAIN disk /\ disk[path] = Frontmatter(c.arg)
      [] OTHER ->
            LET k == FirstDirWith(c.files_before, c.arg)
            IN  k # 0 => MemoryPath(Dirs[k].dir, c.arg) \notin DOMAIN disk

\* The mirror holds what the command was to put there.
MirrorUpdated(c) ==
    CASE c.op = "add_message" -> messages = Append(c.before, c.arg)
      [] c.op = "save_settings" -> settings = c.arg
      [] c.op = "save_memory" -> memories = Append(c.before, c.arg)
      [] OTHER -> memories = RetainOthers(c.before, c.arg)

\* C20: save_memory, delete_memory, save_settings and add_message do their
\* file operation before they update the mirror: while the command is
\* between the two, the files have changed and the mirror has not.  When
\* the file operation fails the command returns an error and the mirror is
\* as it was.
C20_DiskBeforeMirror ==
    /\ \A i \in DOMAIN procs :
          /\ procs[i].pc = "write" => Mirror(procs[i].op) = procs[i].before
          /\ procs[i].pc = "mirror" =>
                /\ OnDiskNow(procs[i])
                /\ Mirror(procs[i].op) = procs[i].before
    /\ call.op \in SyncOps =>
          IF call.ok THEN MirrorUpdated(call)
          ELSE Mirror(call.op) = call.before

\* A command has failed on its file and left the mirror alone, and the next
\* one has changed its file and is about to update the mirror.
C20_Witness ==
    /\ Len(procs) = 2
    /\ call.op = "save_memory" /\ ~call.ok /\ memories = call.before
    /\ procs[2].op = "add_message" /\ procs[2].pc = "mirror"
    /\ message_files # <<>> /\ messages = <<>>

(***************************************************************************)
(* SpecSearch: search_memories on stores that differ from the index        *)
(***************************************************************************)

\* load_memories_from_disk_internal: the scan and the sort of
\* load_memories_from_disk, without the lock and the assignment.
load_memories_from_disk_internal(d) == ScanResults(d)

search_memories_in_index(d, mems, query, memory_type) ==
    LET query_lower == ToLower(query)
        Keep(m) ==
            /\ memory_type.some => m.memory_type = memory_type.value
            /\ \/ Contains(ToLower(m.title), query_lower)
               \/ Contains(ToLower(m.content), query_lower)
               \/ \E i \in 1..Len(m.tags) : Contains(ToLower(m.tags[i]), query_lower)
    IN  { SelectSeq(mems, Keep) }

\* search_memories: the lists it can return for a store, one for every
\* order in which read_dir may list the files.
search_memories(d, mems, query, memory_type) ==
    LET query_lower == ToLower(query)
        Keep(m) ==
            /\ memory_type.some => m.memory_type = memory_type.value
            /\ \/ Contains(ToLower(m.title), query_lower)
               \/ Contains(ToLower(m.content), query_lower)
               \/ \E i \in 1..Len(m.tags) : Contains(ToLower(m.tags[i]), query_lower)
    IN  { SelectSeq(all, Keep) : all \in load_memories_from_disk_internal(d) }

\* Files of records written by save_memory, two of them with the same
\* timestamp, and a file written by hand.
SearchFiles ==
    { [path |-> MemoryPath(memory_dir(m.memory_type), m.id),
       content |-> Frontmatter(m)] :
        m \in { BaseItem, BareItem,
                [BaseItem EXCEPT !.id = <<"c">>, !.title = <<"R","o","a","d">>,
                                 !.content = <<"t","h","e"," ","P","L","A","N">>,
                                 !.memory_type = TypeLearning,
                                 !.tags = << <<"T","1">> >>] } }
    \cup { [path |-> WellFormedFile.path, content |-> WellFormedFile.content] }

\* The index at the time of the search: empty, or holding a record that has
\* no file.
SearchIndexes ==
    { <<>>, << [BaseItem EXCEPT !.id = <<"z">>] >> }

SearchQueries ==
    { <<>>, <<"P","L","A","N">>, <<"t","1">>, <<"z","z">> }

SearchTypes ==
    { None, Some(TypeWork), Some(TypeLearning), Some(<<"w","o","r","k">>) }

InitSearch ==
    /\ \E files \in SUBSET SearchFiles : disk = StoreOf(files)
    /\ memories \in SearchIndexes
    /\ stored = <<>>
    /\ saves = 0
    /\ chats = 0
    /\ settings = [default_model |-> <<>>, keys |-> [p \in Providers |-> <<>>]]
    /\ messages = <<>>
    /\ now = 0
    /\ chat = [pc |-> "idle"]
    /\ call = NoCall
    /\ session_files = <<>>
    /\ current_session = [some |-> FALSE]
    /\ settings_file = [some |-> FALSE]
    /\ message_files = <<>>
    /\ network = [p \in Providers |-> [kind |-> "transport"]]
    /\ procs = <<>>

\* search_memories: ensure_dirs, the scan, the filter.  Nothing but the
\* result leaves the function.
SearchMemories ==
    /\ \E query \in SearchQueries, memory_type \in SearchTypes, io_ok \in BOOLEAN :
         IF io_ok
         THEN \E filtered \in search_memories(disk, memories, query, memory_type) :
                 call' = [op |-> "search_memories", query |-> query,
                          memory_type |-> memory_type, ok |-> TRUE,
                          ret |-> filtered, index_before |-> memories]
         ELSE call' = [op |-> "search_memories", query |-> query,
                       memory_type |-> memory_type, ok |-> FALSE,
                       index_before |-> memories]
    /\ UNCHANGED <<session_vars, mirror_vars, network, procs, settings, messages, memories,
                   disk, stored, saves, chats, now, chat>>

NextSearch == SearchMemories

SpecSearch == InitSearch /\ [][NextSearch]_vars

\* The records the files of a store parse to.
DiskRecords(d) ==
    UNION { { x.memory : x \in PushedBy(d, i) } : i \in 1..Len(Dirs) }

\* The record is of the asked type, if one is asked, and its title, its
\* content or one of its tags contains the query, letter case aside.
Found(m, query, memory_type) ==
    /\ memory_type.some => m.memory_type = memory_type.value
    /\ \/ Contains(ToLower(m.title), ToLower(query))
       \/ Contains(ToLower(m.content), ToLower(query))
       \/ \E t \in Range(m.tags) : Contains(ToLower(t), ToLower(query))

\* C21: search_memories answers from the files, never from the index: its
\* result holds exactly the records on disk of the asked type that contain
\* the query, newest first, and the index is left as it was.
C21_SearchReadsDisk ==
    call.op = "search_memories" /\ call.ok =>
        /\ Range(call.ret) =
              { m \in DiskRecords(disk) : Found(m, call.query, call.memory_type) }
        /\ Len(call.ret) = Cardinality(Range(call.ret))
        /\ \A i, j \in 1..Len(call.ret) :
              i < j => call.ret[i].timestamp >= call.ret[j].timestamp
        /\ memories = call.index_before

\* A search in capitals, with a type, finds a record on disk by its
\* lower-case content while the index holds a matching record of that type
\* that has no file.
C21_Witness ==
    /\ call.op = "search_memories" /\ call.ok
    /\ call.query = <<"P","L","A","N">>
    /\ call.memory_type = Some(TypeLearning)
    /\ Len(call.ret) = 2
    /\ memories # <<>>
    /\ \A i \in 1..Len(call.ret) : call.ret[i].id # <<"z">>

(***************************************************************************)
(* The memory extraction hook (hooks.rs)                                   *)
(***************************************************************************)

\* HookSystem::new: the threshold.
message_count_threshold == 5

\* HookSystem::new: the trigger keywords, in order.
keywords ==
    << <<"U+8BB0","U+4F4F">>,
       <<"r","e","m","e","m","b","e","r">>,
       <<"m","e","m","o","r","i","z","e">>,
       <<"U+91CD","U+8981">>,
       <<"i","m","p","o","r","t","a","n","t">>,
       <<"U+522B","U+5FD8","U+4E86">>,
       <<"d","o","n","'","t"," ","f","o","r","g","e","t">>,
       <<"U+63D0","U+9192","U+6211">>,
       <<"r","e","m","i","n","d"," ","m","e">>,
       <<"U+5B66","U+4E60">>,
       <<"l","e","a","r","n">>,
       <<"U+9879","U+76EE">>,
       <<"p","r","o","j","e","c","t">>,
       <<"U+4EFB","U+52A1">>,
       <<"t","a","s","k">>,
       <<"U+4F1A","U+8BAE">>,
       <<"m","e","e","t","i","n","g">>,
       <<"U+622A","U+6B62","U+65E5","U+671F">>,
       <<"d","e","a","d","l","i","n","e">>,
       <<"U+4EBA","U+540D">>,
       <<"n","a","m","e">>,
       <<"U+7535","U+8BDD">>,
       <<"p","h","o","n","e">>,
       <<"U+90AE","U+7BB1">>,
       <<"e","m","a","i","l">>,
       <<"U+5730","U+5740">>,
       <<"a","d","d","r","e","s","s">> >>

\* keyword.to_lowercase(), for every keyword.
keywords_lower == [i \in 1..Len(keywords) |-> ToLower(keywords[i])]

\* The ideographs of the trigger keywords; three bytes each in UTF-8.
HookIdeographs ==
    { "U+4E60", "U+4E86", "U+4EBA", "U+4EFB", "U+4F1A", "U+4F4F", "U+522B",
      "U+52A1", "U+540D", "U+5730", "U+5740", "U+5B66", "U+5FD8", "U+6211",
      "U+622A", "U+63D0", "U+65E5", "U+671F", "U+6B62", "U+7535", "U+76EE",
      "U+7BB1", "U+8981", "U+8BAE", "U+8BB0", "U+8BDD", "U+90AE", "U+9192",
      "U+91CD", "U+9879" }

\* str::len of a message content: its length in bytes.
RECURSIVE ContentLen(_)
ContentLen(s) ==
    IF s = <<>> THEN 0
    ELSE (IF Head(s) \in HookIdeographs THEN 3 ELSE Utf8Len(Head(s)))
         + ContentLen(Tail(s))

\* The values of the JSON document the extraction model is asked for.  A
\* field that is missing indexes as null.
JNull == [t |-> "null"]
JString(s) == [t |-> "string", v |-> s]
JNumber(n) == [t |-> "number", v |-> n]
JArray(a) == [t |-> "array", v |-> a]

\* Value::as_str
as_str(j) == IF j.t = "string" THEN Some(j.v) ELSE None

\* json["tags"].as_array()?.iter().filter_map(|v| v.as_str()...).collect()
StringsOf(a) ==
    LET IsString(j) == j.t = "string"
        strings == SelectSeq(a, IsString)
    IN  [i \in 1..Len(strings) |-> strings[i].v]

\* parse_memory_response: the reply text is trimmed and parsed; a text that
\* is no JSON, or a document without a string title, content or memory_type
\* or without a tags array, gives None.
parse_memory_response(response, t) ==
    IF ~response.json THEN None
    ELSE LET json == response.value
         IN  IF \/ ~as_str(json.title).some
                \/ ~as_str(json.content).some
                \/ ~as_str(json.memory_type).some
                \/ json.tags.t # "array"
             THEN None
             ELSE Some([id |-> <<"m","e","m","o","r","y","-">> \o FormatInt(t),
                        title |-> json.title.v,
                        content |-> json.content.v,
                        memory_type |-> json.memory_type.v,
                        timestamp |-> t,
                        tags |-> StringsOf(json.tags.v),
                        entities |-> <<>>,
                        confidence |-> 8])

\* call_ai_for_extraction: without an Anthropic or an OpenAI key it returns
\* None before anything is sent; with one, the request goes to Anthropic if
\* it has a key and to OpenAI otherwise, and a failed send, a body that is
\* no JSON or a document without the text give None.
call_ai_for_extraction(prompt, keys, reply) ==
    IF keys["anthropic"] = <<>> /\ keys["openai"] = <<>>
    THEN [sent |-> <<>>, text |-> None]
    ELSE LET provider == IF keys["anthropic"] # <<>> THEN "anthropic" ELSE "openai"
             request == [provider |-> provider, api_key |-> keys[provider],
                         prompt |-> prompt]
         IN  [sent |-> <<request>>,
              text |-> IF reply.kind = "text" THEN Some(reply.text) ELSE None]

\* analyze_and_extract: the prompt around the content of one message, the
\* call, the parse.
analyze_and_extract(content, keys, reply, t) ==
    LET prompt == [mode |-> "single", subject |-> content]
        r == call_ai_for_extraction(prompt, keys, reply)
    IN  [prompts |-> <<prompt>>, sent |-> r.sent,
         ret |-> IF r.text.some THEN parse_memory_response(r.text.value, t)
                 ELSE None]

\* messages.iter().rev().take(5) as "role: content" joined by blank lines.
Conversation(msgs) ==
    LET last == Take(Reverse(msgs), 5)
    IN  Join([i \in 1..Len(last) |-> last[i].role \o <<":"," ">> \o last[i].content],
             <<"\n","\n">>)

analyze_contextual_memory_any_title(msgs, keys, reply, t) ==
    LET prompt == [mode |-> "conversation", subject |-> Conversation(msgs)]
        r == call_ai_for_extraction(prompt, keys, reply)
    IN  [prompts |-> <<prompt>>, sent |-> r.sent,
         ret |-> IF r.text.some THEN parse_memory_response(r.text.value, t)
                 ELSE None]

\* analyze_contextual_memory: the prompt around the last five messages, the
\* call, the parse, and None for a record with an empty title.
analyze_contextual_memory(msgs, keys, reply, t) ==
    LET prompt == [mode |-> "conversation", subject |-> Conversation(msgs)]
        r == call_ai_for_extraction(prompt, keys, reply)
        memory == IF r.text.some THEN parse_memory_response(r.text.value, t)
                  ELSE None
    IN  [prompts |-> <<prompt>>, sent |-> r.sent,
         ret |-> IF memory.some /\ memory.value.title = <<>> THEN None
                 ELSE memory]

\* The contents analyze_and_extract is called with if every call returns
\* None: newest message first, once for every keyword the message contains.
RECURSIVE KeywordHits(_)
KeywordHits(recent) ==
    IF recent = <<>> THEN <<>>
    ELSE LET content_lower == ToLower(Head(recent).content)
             Hit(keyword_lower) == Contains(content_lower, keyword_lower)
             hits == SelectSeq(keywords_lower, Hit)
         IN  [i \in 1..Len(hits) |-> Head(recent).content]
             \o KeywordHits(Tail(recent))

\* The reply to the k-th request of an invocation; beyond the replies drawn
\* for the run, requests fail to send.
ReplyAt(replies, k) ==
    IF k \in DOMAIN replies THEN replies[k] ELSE [kind |-> "send"]

\* The keyword loop from its k-th call on: it stops at the first record.
RECURSIVE KeywordLoop(_, _, _, _, _)
KeywordLoop(hits, keys, replies, k, t) ==
    IF hits = <<>> THEN [prompts |-> <<>>, sent |-> <<>>, ret |-> None]
    ELSE LET r == analyze_and_extract(Head(hits), keys, ReplyAt(replies, k), t)
         IN  IF r.ret.some THEN r
             ELSE LET rest == KeywordLoop(Tail(hits), keys, replies, k + 1, t)
                  IN  [prompts |-> r.prompts \o rest.prompts,
                       sent |-> r.sent \o rest.sent,
                       ret |-> rest.ret]

\* check_and_extract_memory: the keyword loop over the ten most recent
\* messages, then the threshold rule on the whole slice.
check_and_extract_memory(msgs, keys, replies, t) ==
    LET recent == Take(Reverse(msgs), 10)
        hits == KeywordHits(recent)
        loop == KeywordLoop(hits, keys, replies, 1, t)
    IN  IF loop.ret.some THEN loop
        ELSE IF /\ Len(msgs) >= message_count_threshold
                /\ recent # <<>>
                /\ recent[1].role = RoleUser
                /\ ContentLen(recent[1].content) > 50
             THEN LET r == analyze_contextual_memory(
                               msgs, keys, ReplyAt(replies, Len(hits) + 1), t)
                  IN  [prompts |-> loop.prompts \o r.prompts,
                       sent |-> loop.sent \o r.sent,
                       ret |-> r.ret]
             ELSE loop

should_auto_extract_any_multiple(message_count) ==
    message_count % message_count_threshold = 0

\* should_auto_extract
should_auto_extract(message_count) ==
    message_count > 0 /\ message_count % message_count_threshold = 0

(***************************************************************************)
(* SpecHook: check_and_extract_memory and should_auto_extract on logs that *)
(* exercise both rules, with every reply the extraction model can give     *)
(***************************************************************************)

\* The number of extraction requests whose reply is drawn; later requests
\* fail to send.
MaxReplies == 2

\* The largest message count should_auto_extract is asked about.
MaxCount == 11

Doc(title, content, memory_type, tags) ==
    [json |-> TRUE,
     value |-> [title |-> title, content |-> content,
                memory_type |-> memory_type, tags |-> tags]]

\* A request that fails to send; a reply that is no JSON; a full document
\* with a tag that is no string; the "nothing important" document; a
\* document without tags.
ExtractionReplies ==
    { [kind |-> "send"],
      [kind |-> "text", text |-> [json |-> FALSE]],
      [kind |-> "text",
       text |-> Doc(JString(<<"T","r","i","p">>), JString(<<"g","o">>),
                    JString(TypeWork),
                    JArray(<< JString(<<"a">>), JNumber(1) >>))],
      [kind |-> "text",
       text |-> Doc(JString(<<>>), JString(<<>>), JString(TypeGeneral),
                    JArray(<<>>))],
      [kind |-> "text",
       text |-> Doc(JString(<<"T","r","i","p">>), JString(<<"g","o">>),
                    JString(TypeWork), JNull)] }

Short == Msg(RoleAssistant, <<"o","k">>)
Remember ==
    Msg(RoleUser, <<"p","l","e","a","s","e"," ","r","e","m","e","m","b","e","r",
                    " ","t","h","i","s">>)
TwoKeywords ==
    Msg(RoleAssistant, <<"i","m","p","o","r","t","a","n","t"," ",
                         "p","r","o","j","e","c","t">>)
Jizhu == Msg(RoleUser, <<"U+8BF7","U+8BB0","U+4F4F">>)
Shouted == Msg(RoleUser, <<"R","E","M","E","M","B","E","R">>)
Long(role, c, n) == Msg(role, [i \in 1..n |-> c])
Shorts(n) == [i \in 1..n |-> Short]

\* The logs the hook is called on.
HookLogs ==
    { <<>>,
      <<Remember>>, <<TwoKeywords>>, <<Jizhu>>, <<Shouted>>,
      <<Remember, TwoKeywords>>,
      Shorts(3) \o <<Long(RoleUser, "x", 51)>>,
      Shorts(4) \o <<Long(RoleUser, "x", 51)>>,
      Shorts(5) \o <<Long(RoleUser, "x", 51)>>,
      Shorts(4) \o <<Long(RoleUser, "x", 50)>>,
      Shorts(4) \o <<Long(RoleAssistant, "x", 51)>>,
      Shorts(4) \o <<Long(RoleUser, "U+597D", 17)>>,
      Shorts(3) \o <<Remember, Long(RoleUser, "x", 51)>>,
      <<Remember>> \o Shorts(9) \o <<Long(RoleUser, "x", 51)>>,
      <<Remember>> \o Shorts(10) }

\* No key, Anthropic's key alone, every key but Anthropic's.
HookKeys ==
    { NoKeys, [NoKeys EXCEPT !["anthropic"] = ApiKey],
      [AllKeys EXCEPT !["anthropic"] = <<>>] }

InitHook ==
    /\ settings \in { [default_model |-> <<>>, keys |-> k] : k \in HookKeys }
    /\ messages \in HookLogs
    /\ network \in [1..MaxReplies -> ExtractionReplies]
    /\ now = 0
    /\ memories = <<>>
    /\ disk = <<>>
    /\ stored = <<>>
    /\ saves = 0
    /\ chats = 0
    /\ chat = [pc |-> "idle"]
    /\ call = NoCall
    /\ session_files = <<>>
    /\ current_session = [some |-> FALSE]
    /\ settings_file = [some |-> FALSE]
    /\ message_files = <<>>
    /\ procs = <<>>

\* check_and_extract_memory on the log and the settings of the run.
CheckAndExtractMemory ==
    /\ LET r == check_and_extract_memory(messages, settings.keys, network, now)
       IN  call' = [op |-> "check_and_extract_memory", prompts |-> r.prompts,
                    sent |-> r.sent, ret |-> r.ret]
    /\ UNCHANGED <<session_vars, mirror_vars, network, procs, settings, messages, memories,
                   disk, stored, saves, chats, now, chat>>

\* should_auto_extract on a message count.
ShouldAutoExtract ==
    /\ \E message_count \in 0..MaxCount :
         call' = [op |-> "should_auto_extract", message_count |-> message_count,
                  ret |-> should_auto_extract(message_count)]
    /\ UNCHANGED <<session_vars, mirror_vars, network, procs, settings, messages, memories,
                   disk, stored, saves, chats, now, chat>>

NextHook == CheckAndExtractMemory

SpecHook == InitHook /\ [][NextHook]_vars

(***************************************************************************)
(* SpecCadence: should_auto_extract next to the hook, with a key and with  *)
(* replies that always carry a record                                      *)
(***************************************************************************)

InitCadence ==
    /\ settings = [default_model |-> <<>>,
                   keys |-> [NoKeys EXCEPT !["anthropic"] = ApiKey]]
    /\ messages \in HookLogs
    /\ network = [k \in 1..MaxReplies |->
                    [kind |-> "text",
                     text |-> Doc(JString(<<"T","r","i","p">>), JString(<<"g","o">>),
                                  JString(TypeWork), JArray(<<>>))]]
    /\ now = 0
    /\ memories = <<>>
    /\ disk = <<>>
    /\ stored = <<>>
    /\ saves = 0
    /\ chats = 0
    /\ chat = [pc |-> "idle"]
    /\ call = NoCall
    /\ session_files = <<>>
    /\ current_session = [some |-> FALSE]
    /\ settings_file = [some |-> FALSE]
    /\ message_files = <<>>
    /\ procs = <<>>

NextCadence == CheckAndExtractMemory \/ ShouldAutoExtract

SpecCadence == InitCadence /\ [][NextCadence]_vars

\* The message contains a trigger keyword, letter case aside.
HasKeyword(msg) ==
    \E k \in DOMAIN keywords : Contains(ToLower(msg.content), ToLower(keywords[k]))

\* The positions of the ten most recent messages of the log.
RecentPositions == { i \in DOMAIN messages : i > Len(messages) - 10 }

\* The position of the newest recent message with a keyword; 0 without one.
NewestKeywordPosition ==
    LET with == { i \in RecentPositions : HasKeyword(messages[i]) }
    IN  IF with = {} THEN 0 ELSE CHOOSE i \in with : \A j \in with : j <= i

\* C22: the trigger rules are first match wins.  When one of the ten most
\* recent messages contains a keyword, the invocation attempts extraction
\* from the content of that one message and the threshold rule is not
\* evaluated; the threshold rule runs only when no recent message contains
\* a keyword.
C22_FirstMatchWins ==
    call.op = "check_and_extract_memory" /\ NewestKeywordPosition # 0 =>
        /\ call.prompts # <<>>
        /\ \A k \in DOMAIN call.prompts :
              call.prompts[k] = [mode |-> "single",
                                 subject |-> messages[NewestKeywordPosition].content]

\* C23: without a keyword in the recent messages, the extraction over the
\* conversation is attempted exactly when there are at least 5 messages and
\* the last one is the user's and longer than 50 characters; it covers the
\* last 5 messages; otherwise nothing is returned and nothing is sent.
C23_ThresholdRule ==
    call.op = "check_and_extract_memory" /\ NewestKeywordPosition = 0 =>
        LET last == messages[Len(messages)]
            due == /\ Len(messages) >= 5
                   /\ last.role = RoleUser
                   /\ Len(last.content) > 50
        IN  IF due
            THEN call.prompts =
                    << [mode |-> "conversation",
                        subject |-> Conversation(SubSeq(messages, Len(messages) - 4,
                                                        Len(messages)))] >>
            ELSE call.prompts = <<>> /\ call.sent = <<>> /\ call.ret = None

\* The fields of a MemoryItem.
MemoryItemFields ==
    {"id", "title", "content", "memory_type", "timestamp", "tags", "entities",
     "confidence"}

\* C24: the hook returns a record or nothing, never an error.  It returns a
\* record only for a reply that is a JSON document with a string title,
\* content and memory_type and an array of tags, and, when the extraction
\* was over the conversation, with a title that is not empty.
C24_BestEffortParse ==
    call.op = "check_and_extract_memory" =>
        /\ call.ret = None \/ (call.ret.some /\ DOMAIN call.ret.value = MemoryItemFields)
        /\ call.ret.some =>
              /\ Len(call.prompts) \in DOMAIN network
              /\ LET reply == network[Len(call.prompts)]
                     mode == call.prompts[Len(call.prompts)].mode
                 IN  /\ reply.kind = "text"
                     /\ reply.text.json
                     /\ reply.text.value.title.t = "string"
                     /\ reply.text.value.content.t = "string"
                     /\ reply.text.value.memory_type.t = "string"
                     /\ reply.text.value.tags.t = "array"
                     /\ mode = "conversation" => reply.text.value.title.v # <<>>

\* The extraction over the conversation was sent and answered with the
\* document whose title is empty, and the hook returned nothing.
C24_Witness ==
    /\ call.op = "check_and_extract_memory"
    /\ call.prompts # <<>> /\ call.sent # <<>>
    /\ call.prompts[Len(call.prompts)].mode = "conversation"
    /\ Len(call.prompts) \in DOMAIN network
    /\ network[Len(call.prompts)].kind = "text"
    /\ network[Len(call.prompts)].text.json
    /\ network[Len(call.prompts)].text.value.title = JString(<<>>)
    /\ call.ret = None

\* C26: should_auto_extract(n) holds exactly for the positive multiples of
\* the threshold, while check_and_extract_memory does not look at that
\* cadence: its threshold rule needs no more than 5 messages.
C26_Cadence ==
    /\ call.op = "should_auto_extract" =>
          (call.ret <=> /\ call.message_count > 0
                        /\ \E k \in 1..call.message_count : call.message_count = 5 * k)
    /\ call.op = "check_and_extract_memory" =>
          \A k \in DOMAIN call.prompts :
              call.prompts[k].mode = "conversation" => Len(messages) >= 5

\* The threshold rule has produced a record on a log of 6 messages.
C26_Witness ==
    /\ call.op = "check_and_extract_memory"
    /\ Len(messages) = 6
    /\ Len(call.prompts) = 1 /\ call.prompts[1].mode = "conversation"
    /\ call.ret.some

\* A step of a chat call leaves the memory index, the memory files, the
\* session files, the pointer to the current session and the settings as
\* they are.
C25_ChatStep ==
    chat' # chat =>
        /\ memories' = memories
        /\ disk' = disk
        /\ session_files' = session_files
        /\ current_session' = current_session
        /\ settings' = settings

\* C25: a chat call, successful or failed, runs no extraction and updates
\* no session: of the state it can only change the message log.
C25_ChatTouchesOnlyLog == [][C25_ChatStep]_vars

\* A successful chat call has returned with a record in the index: the log
\* has grown by two messages.
C25_Witness ==
    /\ call.op = "chat"
    /\ call.response.ok
    /\ Len(messages) = Len(call.before) + 2
    /\ memories # <<>>

\* What a step of a chat call does with the context: it is built from the
\* log of that moment and put in front of the message unless it is empty;
\* the request carries the result; the log changes only once the provider
\* call is over.
C28_ChatStep ==
    /\ chat.pc = "context" /\ chat'.pc = "dispatch" =>
          LET context == Concat(PartTexts(context_parts(messages, memories)))
          IN  /\ chat'.context = context
              /\ chat'.full_message =
                    IF context = <<>> THEN chat.message
                    ELSE context \o <<"\n","\n","U","s","e","r",":"," ">>
                                 \o chat.message
              /\ messages = <<>> /\ memories = <<>> =>
                    chat'.full_message = chat.message
    /\ chat.pc = "dispatch" /\ chat'.pc = "await" =>
          /\ Len(chat'.requests) = 1
          /\ chat'.requests[1].message = chat.full_message
    /\ messages' # messages =>
          /\ chat.pc = "commit"
          /\ chat.response # None
          /\ messages'[Len(messages) + 1].content = chat.message

\* C28: chat builds the context from the log as it stood before the call;
\* its own message is pushed only after the provider call has returned, and
\* with an empty log and an empty index the message is sent as it is.
C28_ContextBeforeOwnMessage == [][C28_ChatStep]_vars

\* A request is in flight on an empty log and an empty index: it carries
\* the message alone, and the log is still empty.
C28_Witness ==
    /\ chat.pc = "await"
    /\ messages = <<>> /\ memories = <<>>
    /\ Len(chat.requests) = 1
    /\ chat.requests[1].message = chat.message

(***************************************************************************)
(* SpecMessages: add_message with the caller's timestamps, and the log the *)
(* program loads from the message files when it starts                     *)
(***************************************************************************)

\* serde_json::from_str::<ChatMessage>: the message of a file add_message
\* wrote.
from_str(text) == text.json

\* messages.sort_by(|a, b| a.timestamp.cmp(&b.timestamp)): a stable sort,
\* oldest first.
RECURSIVE SortOldestFirst(_)
SortOldestFirst(s) ==
    IF s = <<>> THEN <<>>
    ELSE LET front == SortOldestFirst(SubSeq(s, 1, Len(s) - 1))
             x == s[Len(s)]
             k == Cardinality({ i \in 1..Len(front) :
                                    front[i].timestamp <= x.timestamp })
         IN  SubSeq(front, 1, k) \o <<x>> \o SubSeq(front, k + 1, Len(front))

\* load_messages_from_disk_sync: the lists it can return, one for every
\* order in which read_dir may list the files.
load_messages_from_disk_sync(files) ==
    { SortOldestFirst([i \in 1..Len(o) |-> from_str(files[o[i]])]) :
        o \in Orders(DOMAIN files) }

\* The contents add_message is called with.
NoteTexts == { <<"o","k">>, <<"n","o","t","e">> }

\* add_message is called with a message of the caller's making.
CallAddMessageWith ==
    /\ Len(procs) < MaxCommands
    /\ \E content \in NoteTexts, timestamp \in 0..MaxClock :
         Invoked("add_message",
                 [role |-> RoleUser, content |-> content, timestamp |-> timestamp],
                 messages, message_files)

\* The program starts again: the log is what the message files give.
Restart ==
    /\ MainThreadIdle
    /\ messages' \in load_messages_from_disk_sync(message_files)
    /\ call' = [op |-> "load_messages_from_disk_sync", ret |-> messages']
    /\ UNCHANGED <<session_vars, mirror_vars, network, procs, settings, memories, disk,
                   stored, saves, chats, now, chat>>

NextMessages == CallAddMessageWith \/ AddMessageStep \/ Restart

SpecMessages == InitIdle /\ [][NextMessages]_vars

\* C27: every message added by add_message has a file of its own: once the
\* calls have returned, load_messages_from_disk_sync gives back exactly the
\* messages of the log, none lost or overwritten, oldest first.
C27_OneFilePerMessage ==
    MainThreadIdle =>
        \A loaded \in load_messages_from_disk_sync(message_files) :
            /\ Len(loaded) = Len(messages)
            /\ \A m \in Range(messages) :
                  Cardinality({ i \in DOMAIN loaded : loaded[i] = m })
                      = Cardinality({ i \in DOMAIN messages : messages[i] = m })
            /\ \A i, j \in DOMAIN loaded :
                  i < j => loaded[i].timestamp <= loaded[j].timestamp

(***************************************************************************)
(* SpecLocks: every command that takes a lock of AppState, side by side    *)
(***************************************************************************)

\* The plain commands that take a lock.
PlainOps ==
    SyncOps \cup {"clear_messages", "load_memories_from_disk", "get_messages",
                  "get_memories", "get_settings"}

\* No plain command is running.
NoPlainRunning ==
    \A i \in DOMAIN procs : procs[i].op \in PlainOps => procs[i].pc = "done"

\* A plain command that only reads a mirror is called.
ReadInvoked(op) ==
    /\ procs' = Append(procs, [op |-> op, pc |-> "read", held |-> {}])
    /\ UNCHANGED <<session_vars, mirror_vars, network, settings, messages, memories, disk,
                   stored, saves, chats, now, chat, call>>

\* get_messages, get_memories, get_settings: the clone under the lock.
Reads(i, op, lock, mirror) ==
    /\ procs[i].op = op /\ procs[i].pc = "read"
    /\ Free(lock)
    /\ procs' = [procs EXCEPT ![i] = Returned(op)]
    /\ call' = [op |-> op, proc |-> i, ok |-> TRUE, ret |-> mirror]
    /\ UNCHANGED <<session_vars, mirror_vars, network, settings, messages, memories, disk,
                   stored, saves, chats, now, chat>>

GetMessagesReads(i) == Reads(i, "get_messages", "messages", messages)

GetMemoriesReads(i) == Reads(i, "get_memories", "memories", memories)

GetSettingsReads(i) == Reads(i, "get_settings", "settings", settings)

\* clear_messages: remove_dir_all and create_dir_all on the messages
\* directory.
ClearMessagesRemoves(i, fail) ==
    /\ procs[i].op = "clear_messages" /\ procs[i].pc = "write"
    /\ message_files' = IF fail = "none" THEN <<>> ELSE message_files
    /\ Wrote(i, fail)
    /\ UNCHANGED <<session_vars, settings_file, network, settings, messages, memories,
                   disk, stored, saves, chats, now, chat>>

\* clear_messages: the clear under the messages lock.
ClearMessagesClears(i) ==
    /\ procs[i].op = "clear_messages" /\ procs[i].pc = "mirror"
    /\ Free("messages")
    /\ messages' = <<>>
    /\ Mirrored(i)
    /\ UNCHANGED <<session_vars, mirror_vars, network, settings, memories, disk,
                   stored, saves, chats, now, chat>>

\* load_memories_from_disk: ensure_dirs, the scan and the sort.
LoadMemoriesScans(i, fail) ==
    /\ procs[i].op = "load_memories_from_disk" /\ procs[i].pc = "write"
    /\ fail # "write"
    /\ IF fail = "none"
       THEN /\ \E all_memories \in ScanResults(disk) :
                 procs' = [procs EXCEPT ![i] =
                             [@ EXCEPT !.pc = "mirror", !.arg = all_memories]]
            /\ UNCHANGED call
       ELSE Wrote(i, fail)
    /\ UNCHANGED <<session_vars, mirror_vars, network, settings, messages, memories,
                   disk, stored, saves, chats, now, chat>>

\* load_memories_from_disk: the assignment under the memories lock.
LoadMemoriesAssigns(i) ==
    /\ procs[i].op = "load_memories_from_disk" /\ procs[i].pc = "mirror"
    /\ Free("memories")
    /\ memories' = procs[i].arg
    /\ Mirrored(i)
    /\ UNCHANGED <<session_vars, mirror_vars, network, settings, messages, disk,
                   stored, saves, chats, now, chat>>

\* A command is called: the async ones at any time, the plain ones when no
\* other plain command is running.
CallCommand ==
    /\ Len(procs) < MaxCommands
    /\ \/ \E message \in ChatTexts : ChatInvoked(message)
       \/ GetModelsInvoked
       \/ /\ NoPlainRunning
          /\ \/ Invoked("add_message",
                        [role |-> RoleUser, content |-> <<"n","o","t","e">>,
                         timestamp |-> now],
                        messages, message_files)
             \/ Invoked("clear_messages", <<>>, messages, message_files)
             \/ SaveMemoryInvoked(BaseItem)
             \/ DeleteMemoryInvoked(BaseItem.id)
             \/ Invoked("load_memories_from_disk", <<>>, memories, disk)
             \/ \E new_settings \in RaceSettings : SaveSettingsInvoked(new_settings)
             \/ \E op \in {"get_messages", "get_memories", "get_settings"} :
                    ReadInvoked(op)

\* A command that holds a lock, or waits for none that is taken, takes its
\* next step.
CommandStep ==
    \E i \in DOMAIN procs :
        \/ ChatCopiesSettings(i)
        \/ ChatLocksMessages(i)
        \/ ChatLocksMemories(i)
        \/ ChatSends(i)
        \/ \E outcome \in RaceOutcomes : ChatGetsResponse(i, outcome)
        \/ ChatLocksLog(i)
        \/ ChatPushesUser(i)
        \/ ChatPushesReply(i)
        \/ GetModelsCopiesSettings(i)
        \/ GetModelsReturns(i)
        \/ \E fail \in WriteFailures : AddMessageWrites(i, fail)
        \/ AddMessagePushes(i)
        \/ \E fail \in WriteFailures : ClearMessagesRemoves(i, fail)
        \/ ClearMessagesClears(i)
        \/ \E fail \in WriteFailures : SaveMemoryWrites(i, fail)
        \/ SaveMemoryPushes(i)
        \/ \E fail \in WriteFailures : DeleteMemoryRemoves(i, fail)
        \/ DeleteMemoryRetains(i)
        \/ \E fail \in WriteFailures : LoadMemoriesScans(i, fail)
        \/ LoadMemoriesAssigns(i)
        \/ \E fail \in WriteFailures : SaveSettingsWrites(i, fail)
        \/ SaveSettingsAssigns(i)
        \/ GetMessagesReads(i)
        \/ GetMemoriesReads(i)
        \/ GetSettingsReads(i)

NextLocks == CallCommand \/ CommandStep

SpecLocks == InitRace /\ [][NextLocks]_vars

\* C29: the two messages of a successful chat are pushed under one
\* acquisition of the messages lock: between the push of the user's message
\* and the push of the reply the chat holds the lock and its user message
\* is the last of the log, so every reply in the log directly follows the
\* user message of its chat, whatever add_message and clear_messages do.
C29_PairAdjacent ==
    /\ \A i \in DOMAIN procs :
          procs[i].op = "chat" /\ procs[i].pc = "push_reply" =>
              /\ "messages" \in procs[i].held
              /\ messages # <<>>
              /\ messages[Len(messages)] = procs[i].user_message.value
    /\ \A k \in DOMAIN messages :
          messages[k].role = RoleAssistant =>
              /\ k > 1
              /\ messages[k - 1].role = RoleUser
              /\ messages[k - 1].content \in ChatTexts

\* A chat has pushed its user message and is about to push the reply while
\* a clear_messages or an add_message waits for the lock.
C29_Witness ==
    \E i, j \in DOMAIN procs :
        /\ procs[i].op = "chat" /\ procs[i].pc = "push_reply"
        /\ procs[j].op \in {"add_message", "clear_messages"}
        /\ procs[j].pc = "mirror"

\* C30: no interleaving of the commands deadlocks.  A command holds at
\* most one lock, except build_context, which holds messages and then
\* takes memories; and as long as a command has not returned, some command
\* can take a step.
C30_NoDeadlock ==
    /\ \A i \in DOMAIN procs :
          /\ procs[i].held \subseteq Locks
          /\ Cardinality(procs[i].held) > 1 =>
                /\ procs[i].op = "chat" /\ procs[i].pc = "build"
                /\ procs[i].held = {"messages", "memories"}
          /\ procs[i].op = "chat" /\ procs[i].pc = "lock_memories" =>
                procs[i].held = {"messages"}
    /\ (\E i \in DOMAIN procs : procs[i].pc # "done") => ENABLED CommandStep

\* build_context holds both locks while a command that needs one of them
\* waits.
C30_Witness ==
    \E i, j \in DOMAIN procs :
        /\ procs[i].op = "chat" /\ procs[i].pc = "build"
        /\ procs[i].held = {"messages", "memories"}
        /\ procs[j].op \in {"save_memory", "add_message"}
        /\ procs[j].pc = "mirror"

====
